---- MODULE Spec2Model ----
(***************************************************************************)
(* Blueprint validator and deterministic prompt compiler of InfoAI         *)
(* (backend/compiler/prompt_compiler.py), and the /api/generate request    *)
(* handlers that call them (backend/server.py, api/index.py).              *)
(*                                                                         *)
(* JSON values are tagged records.  A Python str is a sequence of atoms:   *)
(* an atom is an indivisible, non-empty chunk of characters, so string     *)
(* concatenation is \o, equality is equality of atom sequences and         *)
(* "x in s" is contiguous-subsequence search.  A dict is a function whose  *)
(* DOMAIN is its key set, so a missing key and a null value differ.        *)
(***************************************************************************)
EXTENDS Integers, Sequences, FiniteSets, TLC

VARIABLES
    blueprint,     \* the document handed to the two entry points
    vres,          \* result of validate_blueprint(blueprint), NoCall before the call
    cres,          \* result of compile_prompt(blueprint), NoCall before the call
    ires,          \* result of compile_prompt(blueprint) of api/index.py, NoCall before
    app,           \* the deployed application: backend/server.py or api/index.py
    genai_client,  \* whether GEMINI_API_KEY is set, so that genai_client is not None
    usage_cache,   \* the module-level dict usage_cache: username -> count
    req,           \* the /api/generate requests: request id -> its handler's state
    form,          \* request id -> the form fields the request carries
    tables,        \* the module-level lookup dicts of prompt_compiler.py
    caller         \* concurrent callers of compile_prompt: caller id -> its frame

pure_vars == <<blueprint, vres, cres, ires>>
handler_vars == <<app, genai_client, usage_cache, req, form>>
caller_vars == <<tables, caller>>
vars == <<blueprint, vres, cres, ires, app, genai_client, usage_cache, req, form, tables, caller>>

----------------------------------------------------------------------------
(* Bounds of the model *)

MaxSections == 2
MaxItems == 5
MaxColors == 2
MaxRequests == 3
MaxCallers == 3

----------------------------------------------------------------------------
(* JSON / Python values *)

Null == [k |-> "null"]
Str(s) == [k |-> "str", s |-> s]
Num(n) == [k |-> "num", n |-> n]
Lst(l) == [k |-> "list", l |-> l]
Obj(d) == [k |-> "obj", d |-> d]

\* a one-atom string
S(a) == Str(<<a>>)
EmptyStr == Str(<<>>)

IsStr(v) == v.k = "str"
IsList(v) == v.k = "list"
IsObj(v) == v.k = "obj"

\* Python truthiness: bool(v)
Truthy(v) ==
    CASE v.k = "null" -> FALSE
      [] v.k = "str"  -> v.s # <<>>
      [] v.k = "num"  -> v.n # 0
      [] v.k = "list" -> v.l # <<>>
      [] v.k = "obj"  -> DOMAIN v.d # {}

\* dict.get(key, default) on a dict d
Get(d, key, default) == IF key \in DOMAIN d THEN d[key] ELSE default

\* dict.get(key): None when the key is missing
GetNone(d, key) == Get(d, key, Null)

\* the dict d restricted to the keys whose value is not the marker Absent
Absent == [k |-> "absent"]
Dict(f) == [key \in {x \in DOMAIN f : f[x] # Absent} |-> f[key]]

\* t occurs in s as a contiguous run of atoms (Python: t in s, for strings)
Contains(s, t) ==
    \E i \in 0..(Len(s) - Len(t)) : \A j \in 1..Len(t) : s[i + j] = t[j]

RECURSIVE Flatten(_)
\* ''.join(parts) for a sequence of strings (atom sequences)
Flatten(parts) ==
    IF parts = <<>> THEN <<>> ELSE Head(parts) \o Flatten(Tail(parts))

RECURSIVE Join(_, _)
\* sep.join(parts)
Join(sep, parts) ==
    IF parts = <<>> THEN <<>>
    ELSE IF Len(parts) = 1 THEN Head(parts)
    ELSE Head(parts) \o sep \o Join(sep, Tail(parts))

\* repr() of a list of str: ['a', 'b']
ReprStrList(names) ==
    <<"[">> \o Join(<<", ">>, [i \in 1..Len(names) |-> <<"'", names[i], "'">>]) \o <<"]">>

RECURSIVE FormatValue(_)
\* str(v), as an f-string or str.format substitutes a value
FormatValue(v) ==
    CASE v.k = "str"  -> v.s
      [] v.k = "null" -> <<"None">>
      [] v.k = "num"  -> <<ToString(v.n)>>
      [] v.k = "list" ->
            <<"[">> \o Join(<<", ">>,
                [i \in 1..Len(v.l) |->
                    IF IsStr(v.l[i]) THEN <<"'">> \o v.l[i].s \o <<"'">>
                    ELSE FormatValue(v.l[i])]) \o <<"]">>
      [] v.k = "obj"  -> <<"{...}">>

----------------------------------------------------------------------------
(* validate_blueprint *)

valid_types == <<"before_after", "findings_actions", "recommendations", "outcome", "metric">>
valid_layouts == <<"before_after_with_recommendations", "split_two_column", "process_flow", "summary_grid">>
valid_creativity == <<"none", "subtle", "moderate", "high">>
valid_palette == <<"teal", "warm", "mono", "custom">>
valid_tone == <<"professional", "executive", "technical">>
valid_emphasis == <<"low", "medium", "high">>

\* Python: v in names, for a list of str literals (== on each element)
InNames(v, names) == \E i \in 1..Len(names) : v = S(names[i])

Accepted == [kind |-> "return", valid |-> TRUE, msg |-> <<>>]
Rejected(msg) == [kind |-> "return", valid |-> FALSE, msg |-> msg]
Raised(exc) == [kind |-> "raise", exc |-> exc]
NoCall == [kind |-> "none"]

\* lines 418-432: the check of one optional top-level enum field
InvalidEnum(bp, field, names) ==
    Truthy(GetNone(bp, field)) /\ ~InNames(bp[field], names)

InvalidEnumMsg(bp, field, label, names) ==
    <<label>> \o FormatValue(bp[field]) \o <<". Must be one of ">> \o ReprStrList(names)

\* Python: key in section, for a section element of any JSON type;
\* "raise" when the element is not iterable
KeyIn(key, section) ==
    CASE section.k = "obj"  -> IF key \in DOMAIN section.d THEN "yes" ELSE "no"
      [] section.k = "str"  -> IF Contains(section.s, <<key>>) THEN "yes" ELSE "no"
      [] section.k = "list" -> IF \E i \in 1..Len(section.l) : section.l[i] = S(key)
                               THEN "yes" ELSE "no"
      [] OTHER -> "raise"

\* validate_section with the heading check moved in front of the type-valid check
validate_section_heading_first(section, i) ==
    LET n == ToString(i) IN
    IF KeyIn("type", section) = "raise" THEN Raised("TypeError")
    ELSE IF KeyIn("type", section) = "no"
        THEN Rejected(<<"Section ", n, " missing 'type' field">>)
    ELSE IF ~IsObj(section) THEN Raised("TypeError")
    ELSE IF "heading" \notin DOMAIN section.d
        THEN Rejected(<<"Section ", n, " missing 'heading' field">>)
    ELSE IF ~InNames(section.d["type"], valid_types)
        THEN Rejected(<<"Section ", n, " has invalid type: ">>
                      \o FormatValue(section.d["type"])
                      \o <<". Must be one of ">> \o ReprStrList(valid_types))
    ELSE IF Truthy(GetNone(section.d, "emphasis"))
            /\ ~InNames(section.d["emphasis"], valid_emphasis)
        THEN Rejected(<<"Section ", n, " has invalid emphasis: ">>
                      \o FormatValue(section.d["emphasis"])
                      \o <<". Must be one of ">> \o ReprStrList(valid_emphasis))
    ELSE NoCall

\* lines 436-443: the checks of section number i (1-based); NoCall = no finding
validate_section(section, i) ==
    LET n == ToString(i) IN
    IF KeyIn("type", section) = "raise" THEN Raised("TypeError")
    ELSE IF KeyIn("type", section) = "no"
        THEN Rejected(<<"Section ", n, " missing 'type' field">>)
    ELSE IF ~IsObj(section) THEN Raised("TypeError")
    ELSE IF ~InNames(section.d["type"], valid_types)
        THEN Rejected(<<"Section ", n, " has invalid type: ">>
                      \o FormatValue(section.d["type"])
                      \o <<". Must be one of ">> \o ReprStrList(valid_types))
    ELSE IF "heading" \notin DOMAIN section.d
        THEN Rejected(<<"Section ", n, " missing 'heading' field">>)
    ELSE IF Truthy(GetNone(section.d, "emphasis"))
            /\ ~InNames(section.d["emphasis"], valid_emphasis)
        THEN Rejected(<<"Section ", n, " has invalid emphasis: ">>
                      \o FormatValue(section.d["emphasis"])
                      \o <<". Must be one of ">> \o ReprStrList(valid_emphasis))
    ELSE NoCall

RECURSIVE validate_sections(_, _)
\* lines 435-445: the loop over the sections from index i on; first finding wins
validate_sections(sections, i) ==
    IF i > Len(sections) THEN Accepted
    ELSE IF validate_section(sections[i], i) # NoCall
        THEN validate_section(sections[i], i)
    ELSE validate_sections(sections, i + 1)

\* validate_blueprint with the creativity check in front of the layout check
validate_blueprint_creativity_first(bp) ==
    IF "title" \in DOMAIN bp /\ "sections" \in DOMAIN bp /\ IsList(bp["sections"])
       /\ Len(bp["sections"].l) > 0 /\ InvalidEnum(bp, "creativity", valid_creativity)
    THEN Rejected(InvalidEnumMsg(bp, "creativity", "Invalid creativity: ", valid_creativity))
    ELSE IF "title" \notin DOMAIN bp
        THEN Rejected(<<"Missing required field: ", "title">>)
    ELSE IF "sections" \notin DOMAIN bp
        THEN Rejected(<<"Missing required field: ", "sections">>)
    ELSE IF ~IsList(bp["sections"])
        THEN Rejected(<<"'sections' must be an array">>)
    ELSE IF Len(bp["sections"].l) = 0
        THEN Rejected(<<"'sections' must have at least one section">>)
    ELSE IF InvalidEnum(bp, "layout", valid_layouts)
        THEN Rejected(InvalidEnumMsg(bp, "layout", "Invalid layout: ", valid_layouts))
    ELSE IF InvalidEnum(bp, "palette", valid_palette)
        THEN Rejected(InvalidEnumMsg(bp, "palette", "Invalid palette: ", valid_palette))
    ELSE IF InvalidEnum(bp, "tone", valid_tone)
        THEN Rejected(InvalidEnumMsg(bp, "tone", "Invalid tone: ", valid_tone))
    ELSE validate_sections(bp["sections"].l, 1)

\* validate_blueprint with the emptiness check of sections after the enum checks
validate_blueprint_empty_last(bp) ==
    IF "title" \notin DOMAIN bp
        THEN Rejected(<<"Missing required field: ", "title">>)
    ELSE IF "sections" \notin DOMAIN bp
        THEN Rejected(<<"Missing required field: ", "sections">>)
    ELSE IF ~IsList(bp["sections"])
        THEN Rejected(<<"'sections' must be an array">>)
    ELSE IF InvalidEnum(bp, "layout", valid_layouts)
        THEN Rejected(InvalidEnumMsg(bp, "layout", "Invalid layout: ", valid_layouts))
    ELSE IF InvalidEnum(bp, "creativity", valid_creativity)
        THEN Rejected(InvalidEnumMsg(bp, "creativity", "Invalid creativity: ", valid_creativity))
    ELSE IF InvalidEnum(bp, "palette", valid_palette)
        THEN Rejected(InvalidEnumMsg(bp, "palette", "Invalid palette: ", valid_palette))
    ELSE IF InvalidEnum(bp, "tone", valid_tone)
        THEN Rejected(InvalidEnumMsg(bp, "tone", "Invalid tone: ", valid_tone))
    ELSE IF Len(bp["sections"].l) = 0
        THEN Rejected(<<"'sections' must have at least one section">>)
    ELSE validate_sections(bp["sections"].l, 1)

validate_blueprint(bp) ==
    IF "title" \notin DOMAIN bp
        THEN Rejected(<<"Missing required field: ", "title">>)
    ELSE IF "sections" \notin DOMAIN bp
        THEN Rejected(<<"Missing required field: ", "sections">>)
    ELSE IF ~IsList(bp["sections"])
        THEN Rejected(<<"'sections' must be an array">>)
    ELSE IF Len(bp["sections"].l) = 0
        THEN Rejected(<<"'sections' must have at least one section">>)
    ELSE IF InvalidEnum(bp, "layout", valid_layouts)
        THEN Rejected(InvalidEnumMsg(bp, "layout", "Invalid layout: ", valid_layouts))
    ELSE IF InvalidEnum(bp, "creativity", valid_creativity)
        THEN Rejected(InvalidEnumMsg(bp, "creativity", "Invalid creativity: ", valid_creativity))
    ELSE IF InvalidEnum(bp, "palette", valid_palette)
        THEN Rejected(InvalidEnumMsg(bp, "palette", "Invalid palette: ", valid_palette))
    ELSE IF InvalidEnum(bp, "tone", valid_tone)
        THEN Rejected(InvalidEnumMsg(bp, "tone", "Invalid tone: ", valid_tone))
    ELSE validate_sections(bp["sections"].l, 1)

----------------------------------------------------------------------------
(* Lookup tables of prompt_compiler.py.  Long literal texts are one atom    *)
(* each, abbreviated with "..." after their first words.                   *)

PALETTE_DEFINITIONS ==
    [teal |-> [primary |-> "#0d9488", secondary |-> "#14b8a6", accent |-> "#2dd4bf",
               background |-> "#f0fdfa", dark |-> "#134e4a",
               description |-> "teal/cyan/blue-green professional palette"],
     warm |-> [primary |-> "#ea580c", secondary |-> "#f97316", accent |-> "#fb923c",
               background |-> "#fff7ed", dark |-> "#9a3412",
               description |-> "warm orange/amber professional palette"],
     mono |-> [primary |-> "#374151", secondary |-> "#6b7280", accent |-> "#9ca3af",
               background |-> "#f9fafb", dark |-> "#111827",
               description |-> "monochrome grey professional palette"]]

LAYOUT_INSTRUCTIONS ==
    [before_after_with_recommendations |->
        "Layout: BEFORE/AFTER with RECOMMENDATIONS structure...",
     split_two_column |-> "Layout: TWO-COLUMN SPLIT structure...",
     process_flow |-> "Layout: PROCESS FLOW structure...",
     summary_grid |-> "Layout: SUMMARY GRID structure..."]

CREATIVITY_MODIFIERS ==
    [none |-> [style |-> "literal, documentary, factual",
               metaphors |-> "NO metaphors or symbolic imagery...",
               restrictions |-> "Strictly informational. No artistic flourishes."],
     subtle |-> [style |-> "professional with minor symbolic touches",
                 metaphors |-> "Use subtle, tasteful symbolism...",
                 restrictions |-> "Keep metaphors minimal and clearly business-appropriate."],
     moderate |-> [style |-> "storytelling-oriented with clear metaphors",
                   metaphors |-> "Include clear visual metaphors and illustrative storytelling elements...",
                   restrictions |-> "Balance creativity with professionalism..."],
     high |-> [style |-> "highly metaphorical, stylized storytelling",
               metaphors |-> "Strong metaphorical scenes with artistic interpretation...",
               restrictions |-> "EXPERIMENTAL: Maintain executive clarity despite creative styling..."]]

EMPHASIS_INSTRUCTIONS ==
    [low |-> "Small size, subtle positioning, supporting role",
     medium |-> "Standard size, balanced positioning, equal visual weight",
     high |-> "Large size, prominent positioning, visual focal point with label overlay"]

\* lines 98-174: the templates of the five section types, each by the text that
\* opens it after the heading (the section_ operators hold the whole texts)
SECTION_TEMPLATES ==
    [before_after |-> " Section (Before/After Visual Comparison):... LEFT (BEFORE) - Create an ILLUSTRATION showing:\n    - Visual scene depicting: ",
     findings_actions |-> " Section (Visual Findings -> Actions):... FINDINGS (left/top) - Show with ICONS:... Represent each finding with a simple icon, NOT text: ",
     recommendations |-> " Section (Recommendations - Visual Callout):... Each recommendation shown as an ICON with 1-2 word label max:\n",
     outcome |-> " Section (Outcome - Visual Summary):... Each point as an icon with 1-word label:\n",
     metric |-> " Section (Metrics - Visual Data):... Points to visualize:\n"]

\* a list or a dict is unhashable: using it as a dict key raises TypeError
Hashable(v) == v.k \in {"null", "str", "num"}
\* table.get(key, table[dflt]) for a table keyed by str and a hashable key
TableGet(table, key, dflt) ==
    IF IsStr(key) /\ Len(key.s) = 1 /\ key.s[1] \in DOMAIN table
    THEN table[key.s[1]] ELSE table[dflt]

\* str.upper() and str.capitalize(), atom by atom, on the atoms the model uses
UpperAtom ==
    [none |-> "NONE", subtle |-> "SUBTLE", moderate |-> "MODERATE", high |-> "HIGH",
     low |-> "LOW", medium |-> "MEDIUM", bogus |-> "BOGUS",
     professional |-> "PROFESSIONAL", executive |-> "EXECUTIVE", technical |-> "TECHNICAL"]
CapAtom ==
    [professional |-> "Professional", executive |-> "Executive", technical |-> "Technical",
     bogus |-> "Bogus", none |-> "None", high |-> "High"]
Upper(s) == [i \in 1..Len(s) |-> UpperAtom[s[i]]]
\* every atom of the model is lower-case already, so only the first changes
Capitalize(s) == [i \in 1..Len(s) |-> IF i = 1 THEN CapAtom[s[i]] ELSE s[i]]

\* str.strip(): whitespace-only atoms
Whitespace == {"\n", "\n\n", " ", "  ", "    "}
RECURSIVE LStrip(_)
LStrip(s) == IF s # <<>> /\ Head(s) \in Whitespace THEN LStrip(Tail(s)) ELSE s
RECURSIVE RStrip(_)
RStrip(s) ==
    IF s # <<>> /\ s[Len(s)] \in Whitespace THEN RStrip(SubSeq(s, 1, Len(s) - 1)) ELSE s
Strip(s) == RStrip(LStrip(s))

RECURSIVE SplitAt(_, _, _)
\* s.split(sep) for a one-atom separator: the parts of s between its occurrences;
\* cur is the part being collected
SplitAt(s, sep, cur) ==
    IF s = <<>> THEN <<cur>>
    ELSE IF Head(s) = sep THEN <<cur>> \o SplitAt(Tail(s), sep, <<>>)
    ELSE SplitAt(Tail(s), sep, Append(cur, Head(s)))
Split(s, sep) == SplitAt(s, sep, <<>>)

Returned(text) == [kind |-> "return", text |-> text]

----------------------------------------------------------------------------
(* _compile_sections *)

IsRaise(r) == r.kind = "raise"

\* a variant of lines 329-345 without the placeholder: a missing or
\* empty list yields an empty text
DashListBlank(items, placeholder) ==
    IF ~Truthy(items) THEN Returned(<<>>)
    ELSE IF ~IsList(items) THEN Raised("TypeError")
    ELSE IF \E i \in 1..Len(items.l) : ~IsStr(items.l[i]) THEN Raised("TypeError")
    ELSE Returned(Join(<<"\n    - ">>,
                       <<<<>>>> \o [i \in 1..Len(items.l) |-> items.l[i].s]))

\* "\n    - ".join([""] + items) if items else placeholder   (lines 329-345)
DashList(items, placeholder) ==
    IF ~Truthy(items) THEN Returned(<<placeholder>>)
    ELSE IF ~IsList(items) THEN Raised("TypeError")
    ELSE IF \E i \in 1..Len(items.l) : ~IsStr(items.l[i]) THEN Raised("TypeError")
    ELSE Returned(Join(<<"\n    - ">>,
                       <<<<>>>> \o [i \in 1..Len(items.l) |-> items.l[i].s]))

\* "\n".join([f"    * {item}" for item in items]) if items else placeholder
\* (lines 352, 365, 377; "*" stands for the bullet character); iterating a str
\* yields its characters, here its atoms
BulletList(items, placeholder) ==
    IF ~Truthy(items) THEN Returned(<<placeholder>>)
    ELSE CASE items.k = "list" ->
                Returned(Join(<<"\n">>,
                    [i \in 1..Len(items.l) |-> <<"    * ">> \o FormatValue(items.l[i])]))
           [] items.k = "str" ->
                Returned(Join(<<"\n">>,
                    [i \in 1..Len(items.s) |-> <<"    * ", items.s[i]>>]))
           [] items.k = "num" -> Raised("TypeError")

\* a variant of the metaphor line that ignores creativity, as the before_after
\* block of api/index.py does
MetaphorLineAlways(visual_metaphor, creativity) ==
    IF Truthy(visual_metaphor)
    THEN <<"Visual Metaphor: ">> \o FormatValue(visual_metaphor)
    ELSE <<>>

\* f"Visual Metaphor: {visual_metaphor}" if visual_metaphor and creativity != "none" else ""
MetaphorLine(visual_metaphor, creativity) ==
    IF Truthy(visual_metaphor) /\ creativity # S("none")
    THEN <<"Visual Metaphor: ">> \o FormatValue(visual_metaphor)
    ELSE <<>>

\* f"{emphasis.upper()} - {emphasis_inst}"
EmphasisText(emphasis, emphasis_inst) == Upper(emphasis.s) \o <<" - ", emphasis_inst>>

\* a variant of lines 313-335 that splits the metaphor only when the
\* metaphor_direction read at line 311 is left_vs_right
section_before_after_directed(d, heading, emphasis, emphasis_inst, visual_metaphor, creativity) ==
    LET use_metaphor == Truthy(visual_metaphor) /\ creativity # S("none")
        metaphor_direction == Get(d, "metaphor_direction", S("left_vs_right"))
        metaphor_parts == IF metaphor_direction = S("left_vs_right")
                          THEN Split(visual_metaphor.s, " vs ") ELSE <<visual_metaphor.s>>
        metaphor_before ==
            IF use_metaphor THEN <<"- Visual Metaphor: ">> \o metaphor_parts[1] ELSE <<>>
        metaphor_after ==
            IF use_metaphor
            THEN <<"- Visual Metaphor: ">> \o
                 (IF Len(metaphor_parts) > 1 THEN metaphor_parts[2]
                  ELSE <<"organized, resolved state">>)
            ELSE <<>>
        before_items == DashList(Get(d, "before", Lst(<<>>)), "Problem indicators")
        after_items == DashList(Get(d, "after", Lst(<<>>)), "Solution indicators")
    IN  IF use_metaphor /\ ~IsStr(visual_metaphor) THEN Raised("AttributeError")
        ELSE IF IsRaise(before_items) THEN before_items
        ELSE IF IsRaise(after_items) THEN after_items
        ELSE IF ~IsStr(emphasis) THEN Raised("AttributeError")
        ELSE Returned(
            <<"\n">> \o FormatValue(heading)
            \o <<" Section (Before/After Visual Comparison):... LEFT (BEFORE) - Create an ILLUSTRATION showing:\n    - Visual scene depicting: ",
                 "Chaotic, problematic state illustration",
                 "\n    - Single word label: \"BEFORE\"\n    - Show through imagery: ">>
            \o before_items.text
            \o <<"\n    - Visual mood: Chaotic, messy, problematic...\n    ">>
            \o metaphor_before
            \o <<"\n  \n  RIGHT (AFTER) - Create an ILLUSTRATION showing:\n    - Visual scene depicting: ",
                 "Organized, resolved state illustration",
                 "\n    - Single word label: \"AFTER\"  \n    - Show through imagery: ">>
            \o after_items.text
            \o <<"\n    - Visual mood: Organized, clean, resolved...\n    ">>
            \o metaphor_after
            \o <<"\n  \n  Emphasis: ">> \o EmphasisText(emphasis, emphasis_inst)
            \o <<"\n  DO NOT write out the items as text - DRAW them as illustrations\n">>)

\* a variant of lines 313-335 whose AFTER side is the last part of the metaphor,
\* metaphor_parts[-1]
section_before_after_last(d, heading, emphasis, emphasis_inst, visual_metaphor, creativity) ==
    LET use_metaphor == Truthy(visual_metaphor) /\ creativity # S("none")
        metaphor_parts == Split(visual_metaphor.s, " vs ")
        metaphor_before ==
            IF use_metaphor THEN <<"- Visual Metaphor: ">> \o metaphor_parts[1] ELSE <<>>
        metaphor_after ==
            IF use_metaphor
            THEN <<"- Visual Metaphor: ">> \o
                 (IF Len(metaphor_parts) > 1 THEN metaphor_parts[Len(metaphor_parts)]
                  ELSE <<"organized, resolved state">>)
            ELSE <<>>
        before_items == DashList(Get(d, "before", Lst(<<>>)), "Problem indicators")
        after_items == DashList(Get(d, "after", Lst(<<>>)), "Solution indicators")
    IN  IF use_metaphor /\ ~IsStr(visual_metaphor) THEN Raised("AttributeError")
        ELSE IF IsRaise(before_items) THEN before_items
        ELSE IF IsRaise(after_items) THEN after_items
        ELSE IF ~IsStr(emphasis) THEN Raised("AttributeError")
        ELSE Returned(
            <<"\n">> \o FormatValue(heading)
            \o <<" Section (Before/After Visual Comparison):... LEFT (BEFORE) - Create an ILLUSTRATION showing:\n    - Visual scene depicting: ",
                 "Chaotic, problematic state illustration",
                 "\n    - Single word label: \"BEFORE\"\n    - Show through imagery: ">>
            \o before_items.text
            \o <<"\n    - Visual mood: Chaotic, messy, problematic...\n    ">>
            \o metaphor_before
            \o <<"\n  \n  RIGHT (AFTER) - Create an ILLUSTRATION showing:\n    - Visual scene depicting: ",
                 "Organized, resolved state illustration",
                 "\n    - Single word label: \"AFTER\"  \n    - Show through imagery: ">>
            \o after_items.text
            \o <<"\n    - Visual mood: Organized, clean, resolved...\n    ">>
            \o metaphor_after
            \o <<"\n  \n  Emphasis: ">> \o EmphasisText(emphasis, emphasis_inst)
            \o <<"\n  DO NOT write out the items as text - DRAW them as illustrations\n">>)

\* lines 313-335
section_before_after(d, heading, emphasis, emphasis_inst, visual_metaphor, creativity) ==
    LET use_metaphor == Truthy(visual_metaphor) /\ creativity # S("none")
        metaphor_parts == Split(visual_metaphor.s, " vs ")
        metaphor_before ==
            IF use_metaphor THEN <<"- Visual Metaphor: ">> \o metaphor_parts[1] ELSE <<>>
        metaphor_after ==
            IF use_metaphor
            THEN <<"- Visual Metaphor: ">> \o
                 (IF Len(metaphor_parts) > 1 THEN metaphor_parts[2]
                  ELSE <<"organized, resolved state">>)
            ELSE <<>>
        before_items == DashList(Get(d, "before", Lst(<<>>)), "Problem indicators")
        after_items == DashList(Get(d, "after", Lst(<<>>)), "Solution indicators")
    IN  IF use_metaphor /\ ~IsStr(visual_metaphor) THEN Raised("AttributeError")
        ELSE IF IsRaise(before_items) THEN before_items
        ELSE IF IsRaise(after_items) THEN after_items
        ELSE IF ~IsStr(emphasis) THEN Raised("AttributeError")
        ELSE Returned(
            <<"\n">> \o FormatValue(heading)
            \o <<" Section (Before/After Visual Comparison):... LEFT (BEFORE) - Create an ILLUSTRATION showing:\n    - Visual scene depicting: ",
                 "Chaotic, problematic state illustration",
                 "\n    - Single word label: \"BEFORE\"\n    - Show through imagery: ">>
            \o before_items.text
            \o <<"\n    - Visual mood: Chaotic, messy, problematic...\n    ">>
            \o metaphor_before
            \o <<"\n  \n  RIGHT (AFTER) - Create an ILLUSTRATION showing:\n    - Visual scene depicting: ",
                 "Organized, resolved state illustration",
                 "\n    - Single word label: \"AFTER\"  \n    - Show through imagery: ">>
            \o after_items.text
            \o <<"\n    - Visual mood: Organized, clean, resolved...\n    ">>
            \o metaphor_after
            \o <<"\n  \n  Emphasis: ">> \o EmphasisText(emphasis, emphasis_inst)
            \o <<"\n  DO NOT write out the items as text - DRAW them as illustrations\n">>)

\* lines 337-348
section_findings_actions(d, heading, emphasis, emphasis_inst, visual_metaphor, creativity) ==
    LET findings_items == DashList(Get(d, "findings", Lst(<<>>)), "Key findings")
        actions_items == DashList(Get(d, "actions", Lst(<<>>)), "Actions taken")
    IN  IF IsRaise(findings_items) THEN findings_items
        ELSE IF IsRaise(actions_items) THEN actions_items
        ELSE IF ~IsStr(emphasis) THEN Raised("AttributeError")
        ELSE Returned(
            <<"\n">> \o FormatValue(heading)
            \o <<" Section (Visual Findings -> Actions):... FINDINGS (left/top) - Show with ICONS:... Represent each finding with a simple icon, NOT text: ">>
            \o findings_items.text
            \o <<"\n  \n  ACTIONS (right/bottom) - Show with ICONS:... Represent each action with a simple icon, NOT text: ">>
            \o actions_items.text
            \o <<"\n  \n  ">> \o MetaphorLine(visual_metaphor, creativity)
            \o <<"\n  Emphasis: ">> \o EmphasisText(emphasis, emphasis_inst)
            \o <<"\n  Maximum 1-2 word labels per icon\n">>)

\* lines 350-361
section_recommendations(d, heading, emphasis, emphasis_inst, visual_metaphor, creativity) ==
    LET items_formatted == BulletList(Get(d, "items", Lst(<<>>)), "    * Key recommendations")
    IN  IF IsRaise(items_formatted) THEN items_formatted
        ELSE IF ~IsStr(emphasis) THEN Raised("AttributeError")
        ELSE Returned(
            <<"\n">> \o FormatValue(heading)
            \o <<" Section (Recommendations - Visual Callout):... Each recommendation shown as an ICON with 1-2 word label max:\n">>
            \o items_formatted.text
            \o <<"\n  \n  ">> \o MetaphorLine(visual_metaphor, creativity)
            \o <<"\n  Emphasis: ">> \o Upper(emphasis.s) \o <<" - ", emphasis_inst>>
            \o <<"\n  DO NOT write full sentences - use icons with tiny labels only\n">>)

\* lines 363-373
section_outcome(d, heading, emphasis, emphasis_inst, visual_metaphor, creativity) ==
    LET points_formatted == BulletList(Get(d, "points", Lst(<<>>)), "    * Key outcomes")
    IN  IF IsRaise(points_formatted) THEN points_formatted
        ELSE IF ~IsStr(emphasis) THEN Raised("AttributeError")
        ELSE Returned(
            <<"\n">> \o FormatValue(heading)
            \o <<" Section (Outcome - Visual Summary):... Each point as an icon with 1-word label:\n">>
            \o points_formatted.text
            \o <<"\n  \n  ">> \o MetaphorLine(visual_metaphor, creativity)
            \o <<"\n  Emphasis: ">> \o EmphasisText(emphasis, emphasis_inst) \o <<"\n">>)

\* lines 375-385
section_metric(d, heading, emphasis, emphasis_inst, visual_metaphor, creativity) ==
    LET points_formatted == BulletList(Get(d, "points", Lst(<<>>)), "    * Key metrics")
    IN  IF IsRaise(points_formatted) THEN points_formatted
        ELSE IF ~IsStr(emphasis) THEN Raised("AttributeError")
        ELSE Returned(
            <<"\n">> \o FormatValue(heading)
            \o <<" Section (Metrics - Visual Data):... Points to visualize:\n">>
            \o points_formatted.text
            \o <<"\n  \n  ">> \o MetaphorLine(visual_metaphor, creativity)
            \o <<"\n  Emphasis: ">> \o EmphasisText(emphasis, emphasis_inst) \o <<"\n">>)

\* lines 386-387: any other type
section_other(i, heading, section_type, emphasis) ==
    Returned(<<"\nSection ", ToString(i), ": ">> \o FormatValue(heading)
             \o <<"\n  Type: ">> \o FormatValue(section_type)
             \o <<"\n  Emphasis: ">> \o FormatValue(emphasis) \o <<"\n">>)

\* a variant of lines 304-387 whose if/elif chain has no branch for metric
section_text_no_metric(emphasis_instructions, section, i, creativity) ==
    IF ~IsObj(section) THEN Raised("AttributeError")
    ELSE
    LET d == section.d
        section_type == Get(d, "type", S("outcome"))
        heading == Get(d, "heading", Str(<<"Section ", ToString(i)>>))
        emphasis == Get(d, "emphasis", S("medium"))
        emphasis_inst == TableGet(emphasis_instructions, emphasis, "medium")
        visual_metaphor == Get(d, "visual_metaphor", EmptyStr)
    IN  IF ~Hashable(emphasis) THEN Raised("TypeError")
        ELSE IF section_type = S("before_after")
            THEN section_before_after(d, heading, emphasis, emphasis_inst, visual_metaphor, creativity)
        ELSE IF section_type = S("findings_actions")
            THEN section_findings_actions(d, heading, emphasis, emphasis_inst, visual_metaphor, creativity)
        ELSE IF section_type = S("recommendations")
            THEN section_recommendations(d, heading, emphasis, emphasis_inst, visual_metaphor, creativity)
        ELSE IF section_type = S("outcome")
            THEN section_outcome(d, heading, emphasis, emphasis_inst, visual_metaphor, creativity)
        ELSE section_other(i, heading, section_type, emphasis)

\* lines 304-387: section_text of the i-th section (1-based), with the dict
\* EMPHASIS_INSTRUCTIONS as the caller finds it
section_text_with(emphasis_instructions, section, i, creativity) ==
    IF ~IsObj(section) THEN Raised("AttributeError")
    ELSE
    LET d == section.d
        section_type == Get(d, "type", S("outcome"))
        heading == Get(d, "heading", Str(<<"Section ", ToString(i)>>))
        emphasis == Get(d, "emphasis", S("medium"))
        emphasis_inst == TableGet(emphasis_instructions, emphasis, "medium")
        visual_metaphor == Get(d, "visual_metaphor", EmptyStr)
    IN  IF ~Hashable(emphasis) THEN Raised("TypeError")
        ELSE IF section_type = S("before_after")
            THEN section_before_after(d, heading, emphasis, emphasis_inst, visual_metaphor, creativity)
        ELSE IF section_type = S("findings_actions")
            THEN section_findings_actions(d, heading, emphasis, emphasis_inst, visual_metaphor, creativity)
        ELSE IF section_type = S("recommendations")
            THEN section_recommendations(d, heading, emphasis, emphasis_inst, visual_metaphor, creativity)
        ELSE IF section_type = S("outcome")
            THEN section_outcome(d, heading, emphasis, emphasis_inst, visual_metaphor, creativity)
        ELSE IF section_type = S("metric")
            THEN section_metric(d, heading, emphasis, emphasis_inst, visual_metaphor, creativity)
        ELSE section_other(i, heading, section_type, emphasis)

\* lines 304-387 with the dict as the module defines it
section_text(section, i, creativity) ==
    section_text_with(EMPHASIS_INSTRUCTIONS, section, i, creativity)

\* line 389: f"--- SECTION {i} ---\n{section_text}"
SectionPart(i, text) == <<"--- SECTION ", ToString(i), " ---\n">> \o text

\* a variant of lines 303-391 that numbers the markers from 0, as
\* enumerate(sections) without its start argument would
JoinPartsZeroBased(texts) ==
    Join(<<"\n">>, [i \in 1..Len(texts) |-> SectionPart(i - 1, texts[i].text)])

\* line 391: "\n".join(parts), for the section texts rendered so far
JoinParts(texts) ==
    Join(<<"\n">>, [i \in 1..Len(texts) |-> SectionPart(i, texts[i].text)])

\* for section in enumerate(sections, 1): the elements a Python iteration yields
\* (a str yields its characters, here its atoms; a dict yields its keys, which
\* are str)
Iterate(v) ==
    CASE v.k = "list" -> v.l
      [] v.k = "str"  -> [i \in 1..Len(v.s) |-> S(v.s[i])]
      [] v.k = "obj"  -> IF DOMAIN v.d = {} THEN <<>> ELSE <<S("key")>>

Iterable(v) == v.k \in {"list", "str", "obj"}

\* lines 297-391; the first section that raises ends the call
_compile_sections(sections, creativity) ==
    IF ~Iterable(sections) THEN Raised("TypeError")
    ELSE
    LET elems == Iterate(sections)
        texts == [i \in 1..Len(elems) |-> section_text(elems[i], i, creativity)]
    IN  IF \E i \in 1..Len(elems) : IsRaise(texts[i])
        THEN texts[CHOOSE i \in 1..Len(elems) :
                      IsRaise(texts[i]) /\ \A j \in 1..(i - 1) : ~IsRaise(texts[j])]
        ELSE Returned(JoinParts(texts))

----------------------------------------------------------------------------
(* compile_prompt *)

\* a variant of lines 206-210 without the test of custom_colors: a custom
\* palette always gets a synthesized description
PaletteDescCustomAlways(bp, palette, palette_info) ==
    LET custom_colors == Get(bp, "custom_colors", Lst(<<>>)) IN
    IF palette = S("custom")
    THEN IF IsList(custom_colors) /\ \A i \in 1..Len(custom_colors.l) : IsStr(custom_colors.l[i])
         THEN Returned(<<"Custom palette: ">> \o
                 Join(<<", ">>, [i \in 1..Len(custom_colors.l) |-> custom_colors.l[i].s]))
         ELSE Raised("TypeError")
    ELSE Returned(<<palette_info.description>>)

\* a variant of lines 206-210 that never special-cases the custom palette
PaletteDescNoCustom(bp, palette, palette_info) == Returned(<<palette_info.description>>)

\* lines 206-210: palette_desc
PaletteDesc(bp, palette, palette_info) ==
    LET custom_colors == GetNone(bp, "custom_colors") IN
    IF palette = S("custom") /\ Truthy(custom_colors)
    THEN CASE custom_colors.k = "list" ->
                IF \E i \in 1..Len(custom_colors.l) : ~IsStr(custom_colors.l[i])
                THEN Raised("TypeError")
                ELSE Returned(<<"Custom palette: ">> \o
                        Join(<<", ">>, [i \in 1..Len(custom_colors.l) |-> custom_colors.l[i].s]))
           [] custom_colors.k = "str" ->
                Returned(<<"Custom palette: ">> \o
                        Join(<<", ">>, [i \in 1..Len(custom_colors.s) |-> <<custom_colors.s[i]>>]))
           [] custom_colors.k = "num" -> Raised("TypeError")
    ELSE Returned(<<palette_info.description>>)

\* lines 222-292: the assembled f-string
PromptText(title, subtitle, tone, creativity, creativity_mod, palette_desc, palette_info, layout_inst, sections_text) ==
    <<"Create a professional, executive-grade infographic image.\n\n",
      "=== CRITICAL TEXT RENDERING RULES ===...\n\n",
      "=== HEADER ===\nTitle: \"">> \o FormatValue(title)
    \o <<"\"\nSubtitle: \"">> \o FormatValue(subtitle)
    \o <<"\"\n(These are the ONLY longer text elements allowed)\n\n",
         "=== STYLE & TONE ===\n- Tone: ">> \o Capitalize(tone.s)
    \o <<" consulting/business infographic\n- Creativity Level: ">> \o Upper(creativity.s)
    \o <<" - ", creativity_mod.style,
         "\n- Metaphor Guidelines: ", creativity_mod.metaphors,
         "\n- Restrictions: ", creativity_mod.restrictions, "\n\n",
         "=== COLOR PALETTE ===\n- Palette: ">> \o palette_desc
    \o <<"\n- Primary Color: ", palette_info.primary,
         "\n- Secondary Color: ", palette_info.secondary,
         "\n- Accent Color: ", palette_info.accent,
         "\n- Background: ", palette_info.background,
         "\n- Dark/Text Color: ", palette_info.dark, "\n\n",
         "=== TYPOGRAPHY ===...\n\n",
         "=== LAYOUT ===\n", "\n", layout_inst, "\n", "\n\n",
         "=== VISUAL CONTENT APPROACH ===...\n\n">>
    \o sections_text
    \o <<"\n\n", "=== TECHNICAL REQUIREMENTS ===...\n\n",
         "=== DO's ===...\n\n",
         "=== DON'Ts - CRITICAL ===... DO NOT include any watermarks or signatures",
         "\n">>

\* a variant of lines 183-294 that takes the primary colour of a custom palette
\* from the first of the custom_colors
compile_prompt_custom_primary(bp) ==
    LET title == Get(bp, "title", S("Untitled"))
        subtitle == Get(bp, "subtitle", EmptyStr)
        tone == Get(bp, "tone", S("professional"))
        creativity == Get(bp, "creativity", S("subtle"))
        layout == Get(bp, "layout", S("before_after_with_recommendations"))
        palette == Get(bp, "palette", S("teal"))
        sections == Get(bp, "sections", Lst(<<>>))
        custom_colors == GetNone(bp, "custom_colors")
        teal_info == TableGet(PALETTE_DEFINITIONS, palette, "teal")
        palette_info == IF /\ palette = S("custom") /\ IsList(custom_colors)
                           /\ custom_colors.l # <<>> /\ IsStr(custom_colors.l[1])
                           /\ custom_colors.l[1].s # <<>>
                        THEN [teal_info EXCEPT !.primary = custom_colors.l[1].s[1]]
                        ELSE teal_info
        palette_desc == PaletteDesc(bp, palette, palette_info)
        creativity_mod == TableGet(CREATIVITY_MODIFIERS, creativity, "subtle")
        layout_inst == TableGet(LAYOUT_INSTRUCTIONS, layout, "before_after_with_recommendations")
        sections_text == _compile_sections(sections, creativity)
    IN  IF ~Hashable(palette) THEN Raised("TypeError")
        ELSE IF IsRaise(palette_desc) THEN palette_desc
        ELSE IF ~Hashable(creativity) THEN Raised("TypeError")
        ELSE IF ~Hashable(layout) THEN Raised("TypeError")
        ELSE IF IsRaise(sections_text) THEN sections_text
        ELSE IF ~IsStr(tone) THEN Raised("AttributeError")
        ELSE IF ~IsStr(creativity) THEN Raised("AttributeError")
        ELSE Returned(Strip(PromptText(title, subtitle, tone, creativity, creativity_mod,
                                       palette_desc.text, palette_info, layout_inst,
                                       sections_text.text)))

\* a variant of lines 183-294 whose creativity default is moderate, the default
\* of the inline compiler of api/index.py
compile_prompt_moderate(bp) ==
    LET title == Get(bp, "title", S("Untitled"))
        subtitle == Get(bp, "subtitle", EmptyStr)
        tone == Get(bp, "tone", S("professional"))
        creativity == Get(bp, "creativity", S("moderate"))
        layout == Get(bp, "layout", S("before_after_with_recommendations"))
        palette == Get(bp, "palette", S("teal"))
        sections == Get(bp, "sections", Lst(<<>>))
        palette_info == TableGet(PALETTE_DEFINITIONS, palette, "teal")
        palette_desc == PaletteDesc(bp, palette, palette_info)
        creativity_mod == TableGet(CREATIVITY_MODIFIERS, creativity, "moderate")
        layout_inst == TableGet(LAYOUT_INSTRUCTIONS, layout, "before_after_with_recommendations")
        sections_text == _compile_sections(sections, creativity)
    IN  IF ~Hashable(palette) THEN Raised("TypeError")
        ELSE IF IsRaise(palette_desc) THEN palette_desc
        ELSE IF ~Hashable(creativity) THEN Raised("TypeError")
        ELSE IF ~Hashable(layout) THEN Raised("TypeError")
        ELSE IF IsRaise(sections_text) THEN sections_text
        ELSE IF ~IsStr(tone) THEN Raised("AttributeError")
        ELSE IF ~IsStr(creativity) THEN Raised("AttributeError")
        ELSE Returned(Strip(PromptText(title, subtitle, tone, creativity, creativity_mod,
                                       palette_desc.text, palette_info, layout_inst,
                                       sections_text.text)))

\* lines 183-294
compile_prompt(bp) ==
    LET title == Get(bp, "title", S("Untitled"))
        subtitle == Get(bp, "subtitle", EmptyStr)
        tone == Get(bp, "tone", S("professional"))
        creativity == Get(bp, "creativity", S("subtle"))
        layout == Get(bp, "layout", S("before_after_with_recommendations"))
        palette == Get(bp, "palette", S("teal"))
        sections == Get(bp, "sections", Lst(<<>>))
        palette_info == TableGet(PALETTE_DEFINITIONS, palette, "teal")
        palette_desc == PaletteDesc(bp, palette, palette_info)
        creativity_mod == TableGet(CREATIVITY_MODIFIERS, creativity, "subtle")
        layout_inst == TableGet(LAYOUT_INSTRUCTIONS, layout, "before_after_with_recommendations")
        sections_text == _compile_sections(sections, creativity)
    IN  IF ~Hashable(palette) THEN Raised("TypeError")
        ELSE IF IsRaise(palette_desc) THEN palette_desc
        ELSE IF ~Hashable(creativity) THEN Raised("TypeError")
        ELSE IF ~Hashable(layout) THEN Raised("TypeError")
        ELSE IF IsRaise(sections_text) THEN sections_text
        ELSE IF ~IsStr(tone) THEN Raised("AttributeError")
        ELSE IF ~IsStr(creativity) THEN Raised("AttributeError")
        ELSE Returned(Strip(PromptText(title, subtitle, tone, creativity, creativity_mod,
                                       palette_desc.text, palette_info, layout_inst,
                                       sections_text.text)))

----------------------------------------------------------------------------
(* compile_prompt of api/index.py, the inline compiler of the serverless app *)

\* ', '.join(items[:limit]) if items else placeholder   (index.py lines 72-88)
CommaList(items, limit, placeholder) ==
    IF ~Truthy(items) THEN Returned(<<placeholder>>)
    ELSE CASE items.k = "list" ->
                LET head == SubSeq(items.l, 1, IF Len(items.l) < limit THEN Len(items.l) ELSE limit)
                IN  IF \E i \in 1..Len(head) : ~IsStr(head[i]) THEN Raised("TypeError")
                    ELSE Returned(Join(<<", ">>, [i \in 1..Len(head) |-> head[i].s]))
           [] items.k = "str" ->
                LET head == SubSeq(items.s, 1, IF Len(items.s) < limit THEN Len(items.s) ELSE limit)
                IN  Returned(Join(<<", ">>, [i \in 1..Len(head) |-> <<head[i]>>]))
           [] items.k = "num" -> Raised("TypeError")

\* index.py lines 63-89: the text one section adds to sections_text
index_section_text(section, i) ==
    IF ~IsObj(section) THEN Raised("AttributeError")
    ELSE
    LET d == section.d
        heading == Get(d, "heading", Str(<<"Section ", ToString(i)>>))
        section_type == Get(d, "type", S("outcome"))
        metaphor == Get(d, "visual_metaphor", EmptyStr)
        before == CommaList(Get(d, "before", Lst(<<>>)), 2, "problems")
        after == CommaList(Get(d, "after", Lst(<<>>)), 2, "solutions")
        items == CommaList(Get(d, "items", Lst(<<>>)), 3, "key recommendations")
        points == CommaList(Get(d, "points", Get(d, "findings", Get(d, "actions", Lst(<<>>)))),
                            3, "key information")
        head == <<"\nSection ", ToString(i), ": ">> \o FormatValue(heading)
    IN  IF section_type = S("before_after")
        THEN IF IsRaise(before) THEN before
             ELSE IF IsRaise(after) THEN after
             ELSE Returned(head \o <<" (Before/After)\n- LEFT (BEFORE): Show chaotic state - ">>
                           \o before.text
                           \o <<"\n- RIGHT (AFTER): Show organized state - ">> \o after.text
                           \o <<"\n- Visual metaphor: ">> \o FormatValue(metaphor) \o <<"\n">>)
        ELSE IF section_type = S("recommendations")
        THEN IF IsRaise(items) THEN items
             ELSE Returned(head \o <<" (Recommendations)\n- Show as checkmark icons with 1-word labels\n- Items: ">>
                           \o items.text \o <<"\n">>)
        ELSE IF IsRaise(points) THEN points
             ELSE Returned(head \o <<"\n- Show as icons/illustrations\n- Key points: ">>
                           \o points.text \o <<"\n">>)

\* index.py line 55
palette_colors == [teal |-> "#0d9488", warm |-> "#ea580c", mono |-> "#374151"]

\* index.py lines 46-113
index_compile_prompt(bp) ==
    LET title == Get(bp, "title", S("Untitled"))
        subtitle == Get(bp, "subtitle", EmptyStr)
        creativity == Get(bp, "creativity", S("moderate"))
        palette == Get(bp, "palette", S("teal"))
        layout == Get(bp, "layout", S("before_after_with_recommendations"))
        sections == Get(bp, "sections", Lst(<<>>))
        elems == Iterate(sections)
        texts == [i \in 1..Len(elems) |-> index_section_text(elems[i], i)]
    IN  IF ~Iterable(sections) THEN Raised("TypeError")
        ELSE IF \E i \in 1..Len(elems) : IsRaise(texts[i])
        THEN texts[CHOOSE i \in 1..Len(elems) :
                      IsRaise(texts[i]) /\ \A j \in 1..(i - 1) : ~IsRaise(texts[j])]
        ELSE IF ~Hashable(palette) THEN Raised("TypeError")
        ELSE Returned(
            <<"Create a professional infographic image.\n\nCRITICAL: MINIMIZE TEXT...\n\nTitle: \"">>
            \o FormatValue(title) \o <<"\"\nSubtitle: \"">> \o FormatValue(subtitle)
            \o <<"\"\n\nStyle:\n- Layout: ">> \o FormatValue(layout)
            \o <<"\n- Creativity: ">> \o FormatValue(creativity)
            \o <<"\n- Color: ",
                 IF IsStr(palette) /\ Len(palette.s) = 1 /\ palette.s[1] \in DOMAIN palette_colors
                 THEN palette_colors[palette.s[1]] ELSE "#0d9488",
                 "\n- Typography: Clean sans-serif, minimal text\n\nSections:\n">>
            \o Flatten([i \in 1..Len(elems) |-> texts[i].text])
            \o <<"\n\nRULES:...\n">>)

----------------------------------------------------------------------------
(* The documents the entry points are called with *)

\* a section object from a record of fields; a field equal to Absent is left out
Sec(f) == Obj(Dict(f))

\* the list [<name> 1, ..., <name> n] of n distinct one-line strings
Items(name, n) == Lst([i \in 1..n |-> Str(<<name, ToString(i)>>)])

\* a payload field: missing, or a list of 0..MaxItems strings
Payloads(name) == {Absent} \cup {Items(name, n) : n \in 0..MaxItems}

ValidSection == Sec([type |-> S("outcome"), heading |-> S("H")])

\* sections that differ from a valid one in the fields the validator reads,
\* and an element that is not an object
SectionsV ==
    { Sec([type |-> t, heading |-> h, emphasis |-> e]) :
        t \in {Absent, S("outcome"), S("bogus")},
        h \in {Absent, EmptyStr, S("H")},
        e \in {Absent} }
    \cup
    { Sec([type |-> S("metric"), heading |-> h, emphasis |-> e]) :
        h \in {Absent, S("H")},
        e \in {EmptyStr, S("bogus"), S("high")} }
    \cup { Num(7), Sec([type |-> S("bogus"), emphasis |-> S("bogus")]) }

\* sections of every type with payload lists of every length, with and without
\* a metaphor, and with payloads and emphasis values of other JSON types
SectionsC ==
    { Sec([type |-> S("before_after"), heading |-> S("H"), before |-> b,
           after |-> Items("after", 3), visual_metaphor |-> m]) :
        b \in Payloads("before"),
        m \in {Absent, Str(<<"tangled cables", " vs ", "neat shelf">>)} }
    \cup
    { Sec([type |-> S("before_after"), heading |-> S("H"),
           before |-> Items("before", 2), after |-> a, emphasis |-> S("low")]) :
        a \in Payloads("after") }
    \cup
    { Sec([type |-> S("findings_actions"), heading |-> S("H"), findings |-> f,
           actions |-> a, visual_metaphor |-> S("magnifier")]) :
        f \in Payloads("findings"), a \in {Absent, Items("actions", 4)} }
    \cup
    { Sec([type |-> S("recommendations"), heading |-> S("H"), items |-> x,
           visual_metaphor |-> S("checklist")]) :
        x \in Payloads("items") \cup {Lst(<<Null>>), Null} }
    \cup
    { Sec([type |-> t, heading |-> S("H"), points |-> x, emphasis |-> e]) :
        t \in {S("outcome"), S("metric")},
        x \in Payloads("points"),
        e \in {Absent, S("high")} }
    \cup
    { Sec([type |-> S("outcome"), heading |-> h, emphasis |-> e]) :
        h \in {S("H"), EmptyStr, Null},
        e \in {Null, EmptyStr} }
    \cup
    { Sec([type |-> S("before_after"), heading |-> S("H"), before |-> b]) :
        b \in {Lst(<<Null>>), S("x"), Null} }

\* the lists of 1..MaxSections sections with one section of the set at any
\* position and valid sections around it
ListsAround(secs) ==
    { [i \in 1..n |-> IF i = p THEN s ELSE ValidSection] :
        n \in 1..MaxSections, p \in 1..MaxSections, s \in secs } \ {<<>>}

\* every list of 1..MaxSections sections of the set
ListsOf(secs) == UNION { [1..n -> secs] : n \in 1..MaxSections }

Doc(f) == Dict(f)

\* top-level violations, with no or one section
DocsTop ==
    { Doc([title |-> t, sections |-> s, layout |-> l, creativity |-> c,
           palette |-> p, tone |-> o]) :
        t \in {Absent, S("T")},
        s \in {Absent, Null, Lst(<<>>), Lst(<<ValidSection>>),
               Lst(<<Sec([heading |-> S("H")])>>)},
        l \in {Absent, EmptyStr, S("bogus")},
        c \in {Absent, S("bogus")},
        p \in {Absent, S("bogus")},
        o \in {Absent, Null, S("bogus")} }

\* section violations under a valid or invalid top level
DocsSections ==
    { Doc([title |-> S("T"), sections |-> Lst(s), tone |-> o]) :
        s \in ListsOf(SectionsV), o \in {Absent, S("bogus")} }

\* style fields of every kind over one recommendations section
DocsStyle ==
    { Doc([title |-> t, subtitle |-> u, tone |-> o, creativity |-> c,
           palette |-> p, custom_colors |-> k,
           sections |-> Lst(<<Sec([type |-> S("recommendations"), heading |-> S("H"),
                                    items |-> Items("items", 4)])>>)]) :
        t \in {S("Audit Report"), Null},
        u \in {Absent, S("Sub")},
        o \in {Absent, S("executive"), Null},
        c \in {Absent, S("none"), S("moderate"), Null},
        p \in {Absent, S("warm"), S("custom")},
        k \in {Absent, Lst(<<S("#111"), S("#222")>>)} }

\* payloads of every kind under creativity none and moderate
DocsPayload ==
    { Doc([title |-> S("Audit Report"), subtitle |-> S("Sub"), creativity |-> c,
           sections |-> Lst(s)]) :
        c \in {S("none"), S("moderate")},
        s \in ListsAround(SectionsC) }

\* custom_colors of n colour strings
Colors(n) == Lst([i \in 1..n |-> Str(<<"#", ToString(i), ToString(i), ToString(i)>>)])

\* every palette, layout and creativity value, absent, null or outside its set,
\* with custom_colors absent, empty or filled
DocsTables ==
    { Doc([title |-> S("T"), palette |-> p, custom_colors |-> k, layout |-> l,
           creativity |-> c, sections |-> Lst(<<ValidSection>>)]) :
        p \in {Absent, Null, S("teal"), S("warm"), S("mono"), S("custom"), S("bogus")},
        k \in {Absent} \cup {Colors(n) : n \in 0..MaxColors},
        l \in {Absent, S("before_after_with_recommendations"), S("split_two_column"),
               S("process_flow"), S("summary_grid"), S("bogus")},
        c \in {Absent, S("none"), S("subtle"), S("moderate"), S("high"), S("bogus")} }

\* one section of every type, also an unrecognized one, with every kind of
\* visual_metaphor and emphasis, under every creativity
Metaphors ==
    {Absent, EmptyStr, S("storm"), Str(<<"tangled cables", " vs ", "neat shelf">>),
     Str(<<"mess", " vs ", "order", " vs ", "calm">>), Str(<<"mess", " vs ">>), Num(5)}
DocsMetaphor ==
    { Doc([title |-> S("T"), creativity |-> c,
           sections |-> Lst(<<Sec([type |-> t, heading |-> S("H"), emphasis |-> e,
                                    visual_metaphor |-> m])>>)]) :
        c \in {Absent, S("none"), S("moderate"), S("high")},
        t \in {S("before_after"), S("findings_actions"), S("recommendations"),
               S("outcome"), S("metric"), S("bogus")},
        e \in {Absent, S("low"), S("medium"), S("high")},
        m \in Metaphors }

\* outcome and metric sections with points, findings and actions present or not
DocsLegacy ==
    { Doc([title |-> S("T"),
           sections |-> Lst(<<Sec([type |-> t, heading |-> S("H"), points |-> x,
                                    findings |-> f, actions |-> a])>>)]) :
        t \in {S("outcome"), S("metric")},
        x \in {Absent, Lst(<<>>), Items("point", 1)},
        f \in {Absent, Items("finding", 2)},
        a \in {Absent, Items("action", 2)} }

\* documents with the fields summary, id and metaphor_direction of the schema:
\* each is missing or set, around a section with a two-part metaphor
DocsUnused ==
    { Doc([title |-> S("T"), summary |-> m, creativity |-> c,
           sections |-> Lst(<<Sec([id |-> n, type |-> t, heading |-> S("H"),
                                    visual_metaphor |-> Str(<<"tangled cables", " vs ", "neat shelf">>),
                                    metaphor_direction |-> md])>>)]) :
        m \in {Absent, S("summary")},
        c \in {Absent, S("none")},
        n \in {Absent, S("s1")},
        t \in {S("before_after"), S("findings_actions")},
        md \in {Absent, S("left_vs_right"), S("top_vs_bottom"), S("overlay")} }

\* the custom palette with a custom_colors of every JSON kind but object
DocsCustom ==
    { Doc([title |-> S("T"), palette |-> S("custom"), custom_colors |-> k,
           sections |-> Lst(<<ValidSection>>)]) :
        k \in {Null, Num(0), Num(5), EmptyStr, Str(<<"a", "b">>),
               Lst(<<Num(1)>>), Lst(<<S("#111")>>)} }

Docs ==
    DocsTop \cup DocsSections \cup DocsStyle \cup DocsPayload
    \cup DocsTables \cup DocsMetaphor \cup DocsLegacy \cup DocsUnused \cup DocsCustom

----------------------------------------------------------------------------
(* The two entry points, called in any order on one document *)

Init ==
    /\ blueprint \in Docs
    /\ vres = NoCall
    /\ cres = NoCall
    /\ ires = NoCall
    /\ app = "none"
    /\ genai_client = FALSE
    /\ usage_cache = <<>>
    /\ req = <<>>
    /\ form = <<>>
    /\ tables = <<>>
    /\ caller = <<>>

\* a caller runs validate_blueprint(blueprint)
Validate ==
    /\ vres = NoCall
    /\ vres' = validate_blueprint(blueprint)
    /\ UNCHANGED <<blueprint, cres, ires>>
    /\ UNCHANGED <<handler_vars, caller_vars>>

\* a caller runs compile_prompt(blueprint)
Compile ==
    /\ cres = NoCall
    /\ cres' = compile_prompt(blueprint)
    /\ UNCHANGED <<blueprint, vres, ires>>
    /\ UNCHANGED <<handler_vars, caller_vars>>

\* a caller runs compile_prompt(blueprint) of api/index.py
IndexCompile ==
    /\ ires = NoCall
    /\ ires' = index_compile_prompt(blueprint)
    /\ UNCHANGED <<blueprint, vres, cres>>
    /\ UNCHANGED <<handler_vars, caller_vars>>

Next == Validate \/ Compile \/ IndexCompile

Spec == Init /\ [][Next]_vars

----------------------------------------------------------------------------
(* The /api/generate handlers: generate_infographic of backend/server.py (run  *)
(* without MONGO_URL, so that usage is kept in usage_cache) and generate of   *)
(* api/index.py.  Both are coroutines on one event loop: the code between two *)
(* suspensions runs atomically, and the only suspension is await file.read(). *)
(* events lists, in order, the calls a handler has made.                      *)

Requests == 1..MaxRequests

\* server.py lines 60-63, index.py lines 37-40
USERS == [admin |-> "admin", contributor |-> "contributor"]
Usernames == {"", "admin", "contributor"}

\* usage_cache.get(username, 0)
UsageOf(cache, username) == IF username \in DOMAIN cache THEN cache[username] ELSE 0

\* usage_cache[username] = usage_cache.get(username, 0) + 1
Incremented(cache, username) ==
    [u \in DOMAIN cache \cup {username} |->
        IF u = username THEN UsageOf(cache, username) + 1 ELSE cache[u]]

\* server.py lines 430-438, index.py lines 206-208: the contributor limit is reached
LimitReached(cache, username) ==
    /\ username # ""
    /\ username \in DOMAIN USERS
    /\ USERS[username] = "contributor"
    /\ UsageOf(cache, username) >= 2

\* what the blueprint model call gives: an API error, text that holds no JSON
\* object, or a JSON document
GoodDoc == Doc([title |-> S("T"), sections |-> Lst(<<ValidSection>>)])
NoTitleDoc == Doc([sections |-> Lst(<<ValidSection>>)])
NoSectionsDoc == Doc([title |-> S("T"), sections |-> Lst(<<>>)])
NullToneDoc == Doc([title |-> S("T"), tone |-> Null, sections |-> Lst(<<ValidSection>>)])
ModelOutputs ==
    {[k |-> "api_error"], [k |-> "not_json"]}
    \cup {[k |-> "json", doc |-> d] : d \in {GoodDoc, NoTitleDoc, NoSectionsDoc, NullToneDoc}}

\* what the image model call gives: an API error, no image part, or an image
ImageOutputs == {"api_error", "no_image", "image"}

\* the end of a handler run: the calls made in order, the HTTP status, the ok
\* field of the body ("absent" in the body of an HTTPException), the blueprint
\* field of the body and whether the handler incremented the usage count
Outcome(events, status, ok, body_blueprint, counted) ==
    [events |-> events, status |-> status, ok |-> ok, blueprint |-> body_blueprint,
     counted |-> counted]
NoBlueprint == [k |-> "none"]
NoOutcome == Outcome(<<>>, 0, "absent", NoBlueprint, FALSE)

\* return JSONResponse(status_code=status, content={"ok": False, ...})
JSONResponse(events, status) == Outcome(events, status, "false", NoBlueprint, FALSE)

\* raise HTTPException(status_code=status, ...): the body is {"detail": ...}
HTTPException(events, status) == Outcome(events, status, "absent", NoBlueprint, FALSE)

\* the form fields of a request: username, whether prompt is non-empty after
\* strip, and the upload ("none", "pdf", or "other": a name not ending in .pdf)
Form(username, has_text, file) == [username |-> username, has_text |-> has_text, file |-> file]
\* no request: none has arrived yet, or its response has been delivered
NoForm == Form("", FALSE, "absent")

Idle == [pc |-> "idle", username |-> "", has_text |-> FALSE, temp |-> "none", out |-> NoOutcome]

\* the handler is suspended in await file.read()
Reading(username, has_text, temp) ==
    [pc |-> "reading", username |-> username, has_text |-> has_text, temp |-> temp,
     out |-> NoOutcome]

\* the handler returns or raises and its response is sent; temp is the state of
\* the temporary file at that moment: "none" (never created), "created" (empty:
\* NamedTemporaryFile was entered, nothing written), "exists" (the upload was
\* written and the file is there) or "deleted" (written and unlinked)
Done(username, temp, out) ==
    [pc |-> "done", username |-> username, has_text |-> FALSE, temp |-> temp, out |-> out]

\* the response of a finished handler has been delivered: nothing of the request
\* is left in the process
Closed == [pc |-> "closed", username |-> "", has_text |-> FALSE, temp |-> "none", out |-> NoOutcome]

\* a variant in which the usage count is incremented before the images are
\* looked at, so that a 502 response counts as well
RespondCounting(r, username, temp, out) ==
    /\ req' = [req EXCEPT ![r] = Done(username, temp, out)]
    /\ usage_cache' = IF out.status = 502 /\ username # ""
                      THEN Incremented(usage_cache, username) ELSE usage_cache

\* the handler of request r ends with out, without touching the usage counts
Respond(r, username, temp, out) ==
    /\ req' = [req EXCEPT ![r] = Done(username, temp, out)]
    /\ UNCHANGED usage_cache

\* server.py lines 507-523, index.py lines 286-295: the usage count of a named
\* user is incremented and the ok response is returned
RespondOk(r, username, temp, events, doc) ==
    /\ req' = [req EXCEPT ![r] = Done(username, temp, Outcome(events, 200, "true", doc, username # ""))]
    /\ usage_cache' = IF username # "" THEN Incremented(usage_cache, username) ELSE usage_cache

\* server.py lines 462-523, entered with a non-empty user_text
server_pipeline(r, username, temp) ==
    IF ~genai_client THEN Respond(r, username, temp, HTTPException(<<>>, 500))
    ELSE \E model_out \in ModelOutputs :
        IF model_out.k = "api_error"
            THEN Respond(r, username, temp, HTTPException(<<"blueprint_call">>, 500))
        ELSE IF model_out.k = "not_json"
            THEN Respond(r, username, temp, JSONResponse(<<"blueprint_call">>, 500))
        ELSE
        LET doc == model_out.doc
            v == validate_blueprint(doc)
            c == compile_prompt(doc)
        IN  IF IsRaise(v)
                THEN Respond(r, username, temp,
                             JSONResponse(<<"blueprint_call", "validate_raised">>, 500))
            ELSE IF ~v.valid
                THEN Respond(r, username, temp,
                             Outcome(<<"blueprint_call", "validate_rejected">>, 500, "false", doc, FALSE))
            ELSE IF IsRaise(c)
                THEN Respond(r, username, temp,
                             JSONResponse(<<"blueprint_call", "validate_accepted", "compile_prompt">>, 500))
            ELSE \E image_out \in ImageOutputs :
                LET events == <<"blueprint_call", "validate_accepted", "compile_prompt", "image_call">>
                IN  IF image_out = "api_error"
                        THEN Respond(r, username, temp, HTTPException(events, 502))
                    ELSE IF image_out = "no_image"
                        THEN Respond(r, username, temp, JSONResponse(events, 502))
                    ELSE RespondOk(r, username, temp, events, doc)

\* index.py lines 233-301, entered with a non-empty user_text
index_pipeline(r, username, temp) ==
    \E model_out \in ModelOutputs :
        IF model_out.k = "api_error"
            THEN Respond(r, username, temp, JSONResponse(<<"blueprint_call">>, 500))
        ELSE IF model_out.k = "not_json"
            THEN Respond(r, username, temp, JSONResponse(<<"blueprint_call">>, 500))
        ELSE
        LET doc == model_out.doc
            c == index_compile_prompt(doc)
        IN  IF IsRaise(c)
                THEN Respond(r, username, temp,
                             JSONResponse(<<"blueprint_call", "compile_prompt">>, 500))
            ELSE \E image_out \in ImageOutputs :
                LET events == <<"blueprint_call", "compile_prompt", "image_call">>
                IN  IF image_out = "api_error"
                        THEN Respond(r, username, temp, JSONResponse(events, 500))
                    ELSE IF image_out = "no_image"
                        THEN Respond(r, username, temp, JSONResponse(events, 502))
                    ELSE RespondOk(r, username, temp, events, doc)

\* server.py lines 420-523 up to the first suspension: the request carries a
\* username, a prompt (has_text: non-empty after strip) and a file ("none",
\* "pdf", or "other": a file whose name does not end in .pdf)
server_start(r, username, has_text, file) ==
    IF LimitReached(usage_cache, username)
        THEN Respond(r, username, "none", JSONResponse(<<>>, 403))
    ELSE IF file = "other"
        THEN Respond(r, username, "none", HTTPException(<<>>, 400))
    ELSE IF file = "pdf"
        THEN /\ req' = [req EXCEPT ![r] = Reading(username, has_text, "created")]
             /\ UNCHANGED usage_cache
    ELSE IF ~has_text
        THEN Respond(r, username, "none", HTTPException(<<>>, 400))
    ELSE server_pipeline(r, username, "none")

\* server.py lines 451-540 after await file.read().  The read raises or gives the
\* content; extract_text_from_pdf raises HTTPException 400, or gives no text, or
\* gives text.  temp_path is set only after the read, so the finally clause
\* unlinks the file only then.
server_resume(r) ==
    LET username == req[r].username IN
    \/ Respond(r, username, "created", JSONResponse(<<>>, 500))
    \/ Respond(r, username, "deleted", HTTPException(<<>>, 400))
    \/ \E extracted_text \in BOOLEAN :
        IF ~(req[r].has_text \/ extracted_text)
            THEN Respond(r, username, "deleted", HTTPException(<<>>, 400))
        ELSE server_pipeline(r, username, "deleted")

\* index.py lines 196-301 up to the first suspension; a file that is no PDF is
\* ignored
index_start(r, username, has_text, file) ==
    IF ~genai_client
        THEN Respond(r, username, "none", JSONResponse(<<>>, 500))
    ELSE IF LimitReached(usage_cache, username)
        THEN Respond(r, username, "none", JSONResponse(<<>>, 403))
    ELSE IF file = "pdf"
        THEN /\ req' = [req EXCEPT ![r] = Reading(username, has_text, "none")]
             /\ UNCHANGED usage_cache
    ELSE IF ~has_text
        THEN Respond(r, username, "none", JSONResponse(<<>>, 400))
    ELSE index_pipeline(r, username, "none")

\* index.py lines 217-301 after await file.read(), for each way the PDF block
\* can go: the read raises (no temporary file yet); pdfplumber raises (the file
\* stays, text of earlier pages may have been added); or all pages are read and
\* the file is unlinked
index_resume(r) ==
    LET username == req[r].username IN
    \E temp \in {"none", "exists", "deleted"}, extracted_text \in BOOLEAN :
        /\ temp = "none" => ~extracted_text
        /\ IF ~(req[r].has_text \/ extracted_text)
               THEN Respond(r, username, temp, JSONResponse(<<>>, 400))
           ELSE index_pipeline(r, username, temp)

HandlersInit ==
    /\ blueprint = <<>>
    /\ vres = NoCall
    /\ cres = NoCall
    /\ ires = NoCall
    /\ app \in {"server", "index"}
    /\ genai_client \in BOOLEAN
    /\ usage_cache = <<>>
    /\ req = [r \in Requests |-> Idle]
    /\ form = [r \in Requests |-> NoForm]
    /\ tables = <<>>
    /\ caller = <<>>

\* no response is waiting for delivery.  A response is delivered (Close) before
\* the event loop runs another handler step; delivery touches neither
\* usage_cache nor the suspended handlers, so every interleaving of handler steps
\* remains possible.
Delivered == \A q \in Requests : req[q].pc # "done"

\* a request arrives and its handler runs to its first suspension or to its end;
\* requests are numbered in their order of arrival
Start(r) ==
    /\ req[r].pc = "idle"
    /\ \A q \in Requests : q < r => req[q].pc # "idle"
    /\ Delivered
    /\ \E username \in Usernames, has_text \in BOOLEAN, file \in {"none", "pdf", "other"} :
          /\ form' = [form EXCEPT ![r] = Form(username, has_text, file)]
          /\ IF app = "server"
             THEN server_start(r, username, has_text, file)
             ELSE index_start(r, username, has_text, file)
    /\ UNCHANGED <<pure_vars, caller_vars, app, genai_client>>

\* await file.read() completes and the handler runs to its end
Resume(r) ==
    /\ req[r].pc = "reading"
    /\ Delivered
    /\ IF app = "server" THEN server_resume(r) ELSE index_resume(r)
    /\ UNCHANGED <<pure_vars, caller_vars, app, genai_client, form>>

\* the response of a finished handler is delivered
Close(r) ==
    /\ req[r].pc = "done"
    /\ req' = [req EXCEPT ![r] = Closed]
    /\ form' = [form EXCEPT ![r] = NoForm]
    /\ UNCHANGED <<pure_vars, caller_vars, app, genai_client, usage_cache>>

HandlersNext == \E r \in Requests : Start(r) \/ Resume(r) \/ Close(r)

SpecHandlers == HandlersInit /\ [][HandlersNext]_vars

----------------------------------------------------------------------------
(* Concurrent callers of compile_prompt.  The lookup dicts are module-level   *)
(* objects that every caller shares, so they are state; a caller's frame      *)
(* holds its locals.  Each step is one access to a shared dict with the       *)
(* statements around it, and the steps of different callers interleave freely *)
(* (threads; on one event loop a whole call is one step, which is one of the  *)
(* interleavings).                                                            *)

Callers == 1..MaxCallers

\* prompt_compiler.py lines 13-95 and 176-180: the dicts after import
ModuleTables ==
    [PALETTE_DEFINITIONS |-> PALETTE_DEFINITIONS,
     LAYOUT_INSTRUCTIONS |-> LAYOUT_INSTRUCTIONS,
     CREATIVITY_MODIFIERS |-> CREATIVITY_MODIFIERS,
     SECTION_TEMPLATES |-> SECTION_TEMPLATES,
     EMPHASIS_INSTRUCTIONS |-> EMPHASIS_INSTRUCTIONS]

\* accepted blueprints: defaults only; a custom palette, which falls back to the
\* teal entry; two sections with palette, layout, creativity and emphasis set;
\* and one on which compile_prompt raises
CustomDoc ==
    Doc([title |-> S("T"), palette |-> S("custom"),
         custom_colors |-> Lst(<<S("#111111"), S("#222222")>>),
         sections |-> Lst(<<ValidSection>>)])
StyledDoc ==
    Doc([title |-> S("T"), palette |-> S("warm"), layout |-> S("process_flow"),
         creativity |-> S("high"), tone |-> S("executive"),
         sections |-> Lst(<<Sec([type |-> S("before_after"), heading |-> S("H"),
                                 emphasis |-> S("high"), before |-> Items("b", 1),
                                 after |-> Items("a", 1)]),
                            Sec([type |-> S("metric"), heading |-> S("M"),
                                 emphasis |-> S("low"), points |-> Items("p", 2)])>>)])
CallerDocs == {GoodDoc, CustomDoc, StyledDoc, NullToneDoc}

NoValue == [kind |-> "none"]
NoFrame ==
    [pc |-> "idle", blueprint |-> <<>>, palette_info |-> NoValue, palette_desc |-> NoValue,
     creativity_mod |-> NoValue, layout_inst |-> NoValue, texts |-> <<>>, result |-> NoCall]

\* the call ends, returning a string or raising; its frame is gone
Finished(bp, result) == [NoFrame EXCEPT !.pc = "done", !.blueprint = bp, !.result = result]

\* lines 195-202: the call starts and reads the blueprint's top-level fields
Call(c) ==
    /\ caller[c].pc = "idle"
    /\ \E bp \in CallerDocs : caller' = [caller EXCEPT ![c] = [NoFrame EXCEPT !.pc = "palette", !.blueprint = bp]]
    /\ UNCHANGED <<pure_vars, handler_vars, tables>>

\* lines 394-445: a caller calls validate_blueprint, which reads the blueprint
\* and the valid_ lists it builds itself, and returns
ValidateCall(c) ==
    /\ caller[c].pc = "idle"
    /\ \E bp \in CallerDocs :
          caller' = [caller EXCEPT ![c] =
                        [NoFrame EXCEPT !.pc = "validated", !.blueprint = bp,
                                        !.result = validate_blueprint(bp)]]
    /\ UNCHANGED <<pure_vars, handler_vars, tables>>

\* a variant of lines 205-210 that stores the description of a custom palette
\* in the entry it looked up, which is the shared teal entry
LookupPaletteInPlace(c) ==
    LET bp == caller[c].blueprint
        palette == Get(bp, "palette", S("teal"))
        palette_info == TableGet(tables.PALETTE_DEFINITIONS, palette, "teal")
        palette_desc == PaletteDesc(bp, palette, palette_info)
        custom == palette = S("custom") /\ Truthy(GetNone(bp, "custom_colors"))
    IN  /\ caller[c].pc = "palette"
        /\ caller' = [caller EXCEPT ![c] =
              IF ~Hashable(palette) THEN Finished(bp, Raised("TypeError"))
              ELSE IF IsRaise(palette_desc) THEN Finished(bp, palette_desc)
              ELSE [@ EXCEPT !.pc = "creativity", !.palette_info = palette_info,
                             !.palette_desc = palette_desc.text]]
        /\ tables' = IF custom
                     THEN [tables EXCEPT !.PALETTE_DEFINITIONS.teal.description = "Custom palette"]
                     ELSE tables
        /\ UNCHANGED <<pure_vars, handler_vars>>

\* lines 205-210: palette_info and palette_desc; PALETTE_DEFINITIONS is read
LookupPalette(c) ==
    LET bp == caller[c].blueprint
        palette == Get(bp, "palette", S("teal"))
        palette_info == TableGet(tables.PALETTE_DEFINITIONS, palette, "teal")
        palette_desc == PaletteDesc(bp, palette, palette_info)
    IN  /\ caller[c].pc = "palette"
        /\ caller' = [caller EXCEPT ![c] =
              IF ~Hashable(palette) THEN Finished(bp, Raised("TypeError"))
              ELSE IF IsRaise(palette_desc) THEN Finished(bp, palette_desc)
              ELSE [@ EXCEPT !.pc = "creativity", !.palette_info = palette_info,
                             !.palette_desc = palette_desc.text]]
        /\ UNCHANGED <<pure_vars, handler_vars, tables>>

\* line 213: creativity_mod; CREATIVITY_MODIFIERS is read
LookupCreativity(c) ==
    LET bp == caller[c].blueprint
        creativity == Get(bp, "creativity", S("subtle"))
    IN  /\ caller[c].pc = "creativity"
        /\ caller' = [caller EXCEPT ![c] =
              IF ~Hashable(creativity) THEN Finished(bp, Raised("TypeError"))
              ELSE [@ EXCEPT !.pc = "layout",
                             !.creativity_mod = TableGet(tables.CREATIVITY_MODIFIERS, creativity, "subtle")]]
        /\ UNCHANGED <<pure_vars, handler_vars, tables>>

\* line 216: layout_inst; LAYOUT_INSTRUCTIONS is read
LookupLayout(c) ==
    LET bp == caller[c].blueprint
        layout == Get(bp, "layout", S("before_after_with_recommendations"))
        sections == Get(bp, "sections", Lst(<<>>))
    IN  /\ caller[c].pc = "layout"
        /\ caller' = [caller EXCEPT ![c] =
              IF ~Hashable(layout) THEN Finished(bp, Raised("TypeError"))
              ELSE IF ~Iterable(sections) THEN Finished(bp, Raised("TypeError"))
              ELSE [@ EXCEPT !.pc = "sections",
                             !.layout_inst = TableGet(tables.LAYOUT_INSTRUCTIONS, layout,
                                                      "before_after_with_recommendations")]]
        /\ UNCHANGED <<pure_vars, handler_vars, tables>>

\* a variant of line 329 that builds the joined list with
\* before_items.insert(0, "") instead of [""] + before_items: the list of the
\* blueprint itself gets the element
CompileSectionInsert(c) ==
    LET bp == caller[c].blueprint
        elems == Iterate(Get(bp, "sections", Lst(<<>>)))
        i == Len(caller[c].texts) + 1
        text == section_text_with(tables.EMPHASIS_INSTRUCTIONS, elems[i], i,
                                  Get(bp, "creativity", S("subtle")))
        inserts == /\ IsObj(elems[i])
                   /\ Get(elems[i].d, "type", S("outcome")) = S("before_after")
                   /\ "before" \in DOMAIN elems[i].d
                   /\ IsList(elems[i].d["before"]) /\ elems[i].d["before"].l # <<>>
        after == IF inserts
                 THEN [bp EXCEPT !["sections"].l[i].d["before"].l = <<EmptyStr>> \o @]
                 ELSE bp
    IN  /\ caller[c].pc = "sections"
        /\ i <= Len(elems)
        /\ caller' = [caller EXCEPT ![c] =
              IF IsRaise(text) THEN Finished(after, text)
              ELSE [@ EXCEPT !.texts = Append(@, text), !.blueprint = after]]
        /\ UNCHANGED <<pure_vars, handler_vars, tables>>

\* lines 219 and 301-389: one turn of the loop of _compile_sections;
\* EMPHASIS_INSTRUCTIONS is read
CompileSection(c) ==
    LET bp == caller[c].blueprint
        elems == Iterate(Get(bp, "sections", Lst(<<>>)))
        i == Len(caller[c].texts) + 1
        text == section_text_with(tables.EMPHASIS_INSTRUCTIONS, elems[i], i,
                                  Get(bp, "creativity", S("subtle")))
    IN  /\ caller[c].pc = "sections"
        /\ i <= Len(elems)
        /\ caller' = [caller EXCEPT ![c] =
              IF IsRaise(text) THEN Finished(bp, text)
              ELSE [@ EXCEPT !.texts = Append(@, text)]]
        /\ UNCHANGED <<pure_vars, handler_vars, tables>>

\* lines 391 and 221-294: the section texts are joined, the f-string is
\* assembled from the locals and stripped, and the call returns
Return(c) ==
    LET bp == caller[c].blueprint
        tone == Get(bp, "tone", S("professional"))
        creativity == Get(bp, "creativity", S("subtle"))
    IN  /\ caller[c].pc = "sections"
        /\ Len(caller[c].texts) = Len(Iterate(Get(bp, "sections", Lst(<<>>))))
        /\ caller' = [caller EXCEPT ![c] =
              IF ~IsStr(tone) \/ ~IsStr(creativity) THEN Finished(bp, Raised("AttributeError"))
              ELSE Finished(bp, Returned(Strip(PromptText(
                       Get(bp, "title", S("Untitled")), Get(bp, "subtitle", EmptyStr),
                       tone, creativity, caller[c].creativity_mod, caller[c].palette_desc,
                       caller[c].palette_info, caller[c].layout_inst,
                       JoinParts(caller[c].texts)))))]
        /\ UNCHANGED <<pure_vars, handler_vars, tables>>

CallersInit ==
    /\ blueprint = <<>>
    /\ vres = NoCall
    /\ cres = NoCall
    /\ ires = NoCall
    /\ app = "none"
    /\ genai_client = FALSE
    /\ usage_cache = <<>>
    /\ req = <<>>
    /\ form = <<>>
    /\ tables = ModuleTables
    /\ caller = [c \in Callers |-> NoFrame]

CallersNext ==
    \E c \in Callers :
        \/ Call(c)
        \/ ValidateCall(c)
        \/ LookupPalette(c)
        \/ LookupCreativity(c)
        \/ LookupLayout(c)
        \/ CompileSection(c)
        \/ Return(c)

SpecCallers == CallersInit /\ [][CallersNext]_vars

----------------------------------------------------------------------------
(* Vocabulary of the properties *)

ValidateDone == vres # NoCall
CompileDone == cres # NoCall
IsAccepted(r) == r.kind = "return" /\ r.valid
IsRejected(r) == r.kind = "return" /\ ~r.valid

\* the value of a top-level field is present and is no member of the enumeration
OutsideEnum(bp, field, names) == field \in DOMAIN bp /\ ~InNames(bp[field], names)

\* the validator's notion of an offending value: present, non-empty and no member
Offending(bp, field, names) ==
    field \in DOMAIN bp /\ Truthy(bp[field]) /\ ~InNames(bp[field], names)

HasSectionList(bp) == "sections" \in DOMAIN bp /\ IsList(bp["sections"])

\* the per-section checks, in the order the specification gives them
SectionCheck(section, c) ==
    CASE c = 1 -> "type" \notin DOMAIN section.d
      [] c = 2 -> "type" \in DOMAIN section.d /\ ~InNames(section.d["type"], valid_types)
      [] c = 3 -> "heading" \notin DOMAIN section.d
      [] c = 4 -> /\ "emphasis" \in DOMAIN section.d
                  /\ Truthy(section.d["emphasis"])
                  /\ ~InNames(section.d["emphasis"], valid_emphasis)
SectionCheckText ==
    <<" missing 'type' field", " has invalid type: ", " missing 'heading' field",
      " has invalid emphasis: ">>
SectionViolates(section) == ~IsObj(section) \/ \E c \in 1..4 : SectionCheck(section, c)

\* the top-level checks, in the order the specification gives them
TopCheck(bp, c) ==
    CASE c = 1 -> "title" \notin DOMAIN bp
      [] c = 2 -> "sections" \notin DOMAIN bp
      [] c = 3 -> "sections" \in DOMAIN bp /\ ~IsList(bp["sections"])
      [] c = 4 -> HasSectionList(bp) /\ bp["sections"].l = <<>>
      [] c = 5 -> Offending(bp, "layout", valid_layouts)
      [] c = 6 -> Offending(bp, "creativity", valid_creativity)
      [] c = 7 -> Offending(bp, "palette", valid_palette)
      [] c = 8 -> Offending(bp, "tone", valid_tone)
TopCheckText ==
    <<"Missing required field: ", "Missing required field: ", "'sections' must be an array",
      "'sections' must have at least one section", "Invalid layout: ",
      "Invalid creativity: ", "Invalid palette: ", "Invalid tone: ">>
TopViolated(bp) == {c \in 1..8 : TopCheck(bp, c)}
FirstTop(bp) == CHOOSE c \in TopViolated(bp) : \A o \in TopViolated(bp) : c <= o

SectionsViolating(bp) ==
    IF HasSectionList(bp)
    THEN {i \in 1..Len(bp["sections"].l) : SectionViolates(bp["sections"].l[i])}
    ELSE {}
FirstSection(bp) == CHOOSE i \in SectionsViolating(bp) : \A o \in SectionsViolating(bp) : i <= o
FirstSectionCheck(section) ==
    CHOOSE c \in 1..4 : SectionCheck(section, c) /\ \A o \in 1..(c - 1) : ~SectionCheck(section, o)

----------------------------------------------------------------------------
(* Properties *)

\* C1: every blueprint validate_blueprint accepts is compiled without an error,
\* to a non-empty string that contains its title and its subtitle.
C1_CompileTotalOnAccepted ==
    (ValidateDone /\ CompileDone /\ IsAccepted(vres)) =>
        /\ cres.kind = "return"
        /\ cres.text # <<>>
        /\ Contains(cres.text, FormatValue(blueprint["title"]))
        /\ "subtitle" \in DOMAIN blueprint =>
               Contains(cres.text, FormatValue(blueprint["subtitle"]))

\* C2: validate_blueprint reports the earliest failing check of the fixed order
\* title, sections present, sections a sequence, sections non-empty, layout,
\* creativity, palette, tone, then the sections by index; a document without
\* title and sections is rejected for its title.
C2_FirstFailureInOrder ==
    ValidateDone =>
        /\ TopViolated(blueprint) # {} =>
              /\ IsRejected(vres)
              /\ vres.msg[1] = TopCheckText[FirstTop(blueprint)]
              /\ FirstTop(blueprint) = 1 => vres.msg = <<"Missing required field: ", "title">>
              /\ FirstTop(blueprint) = 2 => vres.msg = <<"Missing required field: ", "sections">>
        /\ (TopViolated(blueprint) = {} /\ SectionsViolating(blueprint) # {}
               /\ IsRejected(vres)) =>
              /\ vres.msg[1] = "Section "
              /\ vres.msg[2] = ToString(FirstSection(blueprint))
        /\ IsAccepted(vres) =>
              TopViolated(blueprint) = {} /\ SectionsViolating(blueprint) = {}

C2_Witness ==
    /\ "title" \notin DOMAIN blueprint
    /\ "sections" \notin DOMAIN blueprint
    /\ Offending(blueprint, "layout", valid_layouts)
    /\ vres = Rejected(<<"Missing required field: ", "title">>)

\* C3: a document with a title and a non-empty sections list in which layout,
\* creativity, palette or tone is present with a value outside its enumeration
\* is rejected, the reason naming that field, its value and the allowed set.
C3_EnumOutsideRejected ==
    (/\ ValidateDone
     /\ "title" \in DOMAIN blueprint
     /\ HasSectionList(blueprint) /\ blueprint["sections"].l # <<>>
     /\ \/ OutsideEnum(blueprint, "layout", valid_layouts)
        \/ OutsideEnum(blueprint, "creativity", valid_creativity)
        \/ OutsideEnum(blueprint, "palette", valid_palette)
        \/ OutsideEnum(blueprint, "tone", valid_tone))
    => /\ IsRejected(vres)
       /\ \/ /\ OutsideEnum(blueprint, "layout", valid_layouts)
             /\ vres.msg = InvalidEnumMsg(blueprint, "layout", "Invalid layout: ", valid_layouts)
          \/ /\ OutsideEnum(blueprint, "creativity", valid_creativity)
             /\ vres.msg = InvalidEnumMsg(blueprint, "creativity", "Invalid creativity: ", valid_creativity)
          \/ /\ OutsideEnum(blueprint, "palette", valid_palette)
             /\ vres.msg = InvalidEnumMsg(blueprint, "palette", "Invalid palette: ", valid_palette)
          \/ /\ OutsideEnum(blueprint, "tone", valid_tone)
             /\ vres.msg = InvalidEnumMsg(blueprint, "tone", "Invalid tone: ", valid_tone)

\* C4: an accepted blueprint has at least one section, and every section has a
\* type of the five, a heading that is present and non-empty, and an emphasis
\* that, when present, is low, medium or high.
C4_AcceptedSectionInvariants ==
    (ValidateDone /\ IsAccepted(vres)) =>
        /\ HasSectionList(blueprint)
        /\ Len(blueprint["sections"].l) >= 1
        /\ \A i \in 1..Len(blueprint["sections"].l) :
              LET section == blueprint["sections"].l[i] IN
              /\ IsObj(section)
              /\ "type" \in DOMAIN section.d /\ InNames(section.d["type"], valid_types)
              /\ "heading" \in DOMAIN section.d /\ Truthy(section.d["heading"])
              /\ "emphasis" \in DOMAIN section.d =>
                     InNames(section.d["emphasis"], valid_emphasis)

\* C5: when the top-level checks pass, the reason carries the 1-based index of
\* the first violating section and the first failing check of that section in
\* the order type present, type valid, heading present, emphasis valid.
C5_FirstSectionViolation ==
    (/\ ValidateDone
     /\ TopViolated(blueprint) = {}
     /\ SectionsViolating(blueprint) # {}
     /\ IsObj(blueprint["sections"].l[FirstSection(blueprint)]))
    => LET i == FirstSection(blueprint)
           c == FirstSectionCheck(blueprint["sections"].l[i])
       IN  /\ IsRejected(vres)
           /\ SubSeq(vres.msg, 1, 3) = <<"Section ", ToString(i), SectionCheckText[c]>>

C5_Witness ==
    /\ ValidateDone
    /\ TopViolated(blueprint) = {}
    /\ Cardinality(SectionsViolating(blueprint)) = 2
    /\ FirstSection(blueprint) = 1
    /\ IsObj(blueprint["sections"].l[1])
    /\ SectionCheck(blueprint["sections"].l[1], 2)
    /\ SectionCheck(blueprint["sections"].l[1], 3)
    /\ vres.msg[2] = "1"

\* C6: a document with a title and an empty sections list is rejected with
\* exactly "'sections' must have at least one section", whatever else it holds.
C6_EmptySectionsReason ==
    (/\ ValidateDone
     /\ "title" \in DOMAIN blueprint
     /\ HasSectionList(blueprint) /\ blueprint["sections"].l = <<>>)
    => vres = Rejected(<<"'sections' must have at least one section">>)

C6_Witness ==
    /\ "title" \in DOMAIN blueprint
    /\ HasSectionList(blueprint) /\ blueprint["sections"].l = <<>>
    /\ Offending(blueprint, "layout", valid_layouts)
    /\ Offending(blueprint, "tone", valid_tone)
    /\ vres = Rejected(<<"'sections' must have at least one section">>)

\* the calls that the finished handler of request r made, in order
EventsOf(r) == req[r].out.events

\* the handler of request r called compile_prompt only after an accepting
\* validate_blueprint, and made no compile_prompt or image call after a
\* rejecting one, which it answered with an error
ValidatedBeforeCompile(r) ==
    LET events == EventsOf(r) IN
    /\ \A i \in 1..Len(events) :
          events[i] = "compile_prompt" =>
              \E j \in 1..(i - 1) : events[j] = "validate_accepted"
    /\ \A i \in 1..Len(events) :
          events[i] = "validate_rejected" =>
              /\ req[r].out.status >= 400
              /\ req[r].out.ok # "true"
              /\ \A j \in (i + 1)..Len(events) :
                    events[j] \notin {"compile_prompt", "image_call"}

\* C7: in every run of a /api/generate handler, of server.py and of
\* api/index.py, compile_prompt is invoked only on a blueprint that
\* validate_blueprint accepted earlier in the same request, and a rejected
\* blueprint is terminal: an error is returned and neither compile_prompt nor
\* the image call follows.
C7_CompileOnlyAfterAccept ==
    \A r \in Requests : req[r].pc = "done" => ValidatedBeforeCompile(r)

\* the same, of the handler of server.py alone
ServerCompilesOnlyAfterAccept ==
    app = "server" => \A r \in Requests : req[r].pc = "done" => ValidatedBeforeCompile(r)

\* C8: compile_prompt gives the same outcome under any interleaving: every
\* finished call on a blueprint b, made while other callers are anywhere in
\* their own calls on the shared lookup dicts, returns the string (or raises
\* the exception) of a call of compile_prompt(b) made alone, so any two calls
\* on the same b agree.
C8_SameResultUnderInterleaving ==
    \A c \in Callers :
        caller[c].pc = "done" =>
            /\ caller[c].result = compile_prompt(caller[c].blueprint)
            /\ \A d \in Callers :
                  (caller[d].pc = "done" /\ caller[d].blueprint = caller[c].blueprint)
                      => caller[d].result = caller[c].result

\* two calls on the same accepted blueprint have returned their string, and
\* they ran while a call on a blueprint with another palette was under way
C8_Witness ==
    \E c, d, e \in Callers :
        /\ c # d
        /\ caller[c].pc = "done" /\ caller[d].pc = "done"
        /\ caller[c].blueprint = GoodDoc /\ caller[d].blueprint = GoodDoc
        /\ caller[c].result.kind = "return"
        /\ caller[d].result = caller[c].result
        /\ caller[e].pc \in {"creativity", "layout", "sections"}
        /\ caller[e].blueprint = CustomDoc

\* the payload list fields of a section type
PayloadFields(section_type) ==
    CASE section_type = S("before_after")     -> {"before", "after"}
      [] section_type = S("findings_actions") -> {"findings", "actions"}
      [] section_type = S("recommendations")  -> {"items"}
      [] section_type = S("outcome")          -> {"points"}
      [] section_type = S("metric")           -> {"points"}
      [] OTHER -> {}

\* the output shows the first limit items of every payload list of the sections
\* of the given types, and none of the later items
ShowsAtMost(bp, text, types, limit) ==
    HasSectionList(bp) =>
    \A i \in 1..Len(bp["sections"].l) :
        LET section == bp["sections"].l[i] IN
        (IsObj(section) /\ "type" \in DOMAIN section.d /\ section.d["type"] \in types) =>
            \A f \in PayloadFields(section.d["type"]) :
                (f \in DOMAIN section.d /\ IsList(section.d[f])) =>
                    \A j \in 1..Len(section.d[f].l) :
                        Contains(text, FormatValue(section.d[f].l[j])) <=> j <= limit

\* C9: of a before_after section the output contains at most the first 2 items
\* of before and of after; of 5 before items, items 3, 4 and 5 do not appear.
C9_BeforeAfterFirstTwo ==
    (ValidateDone /\ IsAccepted(vres) /\ CompileDone /\ cres.kind = "return") =>
        ShowsAtMost(blueprint, cres.text, {S("before_after")}, 2)

\* C10: of a recommendations, findings_actions, outcome or metric section the
\* output renders at most the first 3 items of each payload list; of the items
\* A, B, C, D it shows A, B, C and not D.
C10_OtherTypesFirstThree ==
    (ValidateDone /\ IsAccepted(vres) /\ CompileDone /\ cres.kind = "return") =>
        ShowsAtMost(blueprint, cres.text,
                    {S("recommendations"), S("findings_actions"), S("outcome"), S("metric")}, 3)

\* the blueprint with its creativity set to c
WithCreativity(bp, c) ==
    [k \in DOMAIN bp \cup {"creativity"} |-> IF k = "creativity" THEN c ELSE bp[k]]

\* the section objects of a blueprint
SectionObjects(bp) ==
    IF HasSectionList(bp)
    THEN {bp["sections"].l[i] : i \in {j \in 1..Len(bp["sections"].l) : IsObj(bp["sections"].l[j])}}
    ELSE {}

\* the atoms a metaphor phrase of the blueprint can consist of: those of its
\* sections' visual_metaphor values and the fixed AFTER-side phrase
MetaphorAtoms(bp) ==
    {"organized, resolved state"} \cup
    UNION { {FormatValue(sec.d["visual_metaphor"])[i] :
                i \in 1..Len(FormatValue(sec.d["visual_metaphor"]))} :
            sec \in {x \in SectionObjects(bp) : "visual_metaphor" \in DOMAIN x.d} }

MetaphorLabels == {"Visual Metaphor: ", "- Visual Metaphor: "}

\* the atoms of text at the positions of the set keep, in their order
Project(text, keep) ==
    [n \in 1..Cardinality(keep) |->
        text[CHOOSE i \in keep : Cardinality({j \in keep : j <= i}) = n]]

\* position i of text is part of a metaphor phrase: a label, or a metaphor atom
\* with nothing but metaphor atoms between it and the label before it
InMetaphorPhrase(text, atoms, i) ==
    \/ text[i] \in MetaphorLabels
    \/ /\ text[i] \in atoms
       /\ \E j \in 1..(i - 1) :
             /\ text[j] \in MetaphorLabels
             /\ \A k \in (j + 1)..(i - 1) : text[k] \in atoms

\* text without its metaphor phrases
WithoutMetaphors(bp, text) ==
    Project(text, {i \in 1..Len(text) : ~InMetaphorPhrase(text, MetaphorAtoms(bp), i)})

\* the position of the first atom a in text, 0 if there is none
IndexOf(text, a) ==
    IF \E i \in 1..Len(text) : text[i] = a
    THEN CHOOSE i \in 1..Len(text) : text[i] = a /\ \A j \in 1..(i - 1) : text[j] # a
    ELSE 0

\* text without the contents of the Creativity Level, Metaphor Guidelines and
\* Restrictions lines of the style block
WithoutCreativityLines(text) ==
    LET from == IndexOf(text, " consulting/business infographic\n- Creativity Level: ")
        to == IndexOf(text, "=== COLOR PALETTE ===\n- Palette: ")
    IN  IF from = 0 \/ to = 0 THEN text
        ELSE SubSeq(text, 1, from) \o SubSeq(text, to, Len(text))

\* the blueprint is accepted, has creativity none and has been compiled
CompiledWithNone ==
    /\ ValidateDone /\ IsAccepted(vres) /\ CompileDone
    /\ "creativity" \in DOMAIN blueprint /\ blueprint["creativity"] = S("none")

\* the result of compiling the same blueprint with creativity moderate
ModerateTwin == compile_prompt(WithCreativity(blueprint, S("moderate")))

\* a before_after section whose visual_metaphor is truthy and no string
HasUnsplittableMetaphor(bp) ==
    \E sec \in SectionObjects(bp) :
        /\ "type" \in DOMAIN sec.d /\ sec.d["type"] = S("before_after")
        /\ "visual_metaphor" \in DOMAIN sec.d
        /\ Truthy(sec.d["visual_metaphor"]) /\ ~IsStr(sec.d["visual_metaphor"])

FiveTypes ==
    {S("before_after"), S("findings_actions"), S("recommendations"), S("outcome"), S("metric")}

\* the sections of the blueprint that have a non-empty string as visual_metaphor
SectionsWithMetaphor(bp) ==
    {sec \in SectionObjects(bp) :
        /\ "visual_metaphor" \in DOMAIN sec.d
        /\ IsStr(sec.d["visual_metaphor"]) /\ sec.d["visual_metaphor"] # EmptyStr}

CreativityIsNone(bp) == "creativity" \in DOMAIN bp /\ bp["creativity"] = S("none")

\* text, compiled from bp, shows no metaphor under creativity none, and under
\* any other creativity the metaphor of every section of the five types
MetaphorGated(bp, text) ==
    \A sec \in SectionsWithMetaphor(bp) :
        /\ CreativityIsNone(bp) => ~Contains(text, sec.d["visual_metaphor"].s)
        /\ (~CreativityIsNone(bp) /\ "type" \in DOMAIN sec.d /\ sec.d["type"] \in FiveTypes)
              => Contains(text, sec.d["visual_metaphor"].s)

\* C12: with creativity none no section render of compile_prompt's output
\* contains the section's visual_metaphor text, whatever the section type; with
\* any other creativity and a non-empty visual_metaphor the render of a section
\* of the five types contains it. Stated of both compilers.
C12_MetaphorGatedByCreativity ==
    (ValidateDone /\ IsAccepted(vres)) =>
        /\ (CompileDone /\ cres.kind = "return") => MetaphorGated(blueprint, cres.text)
        /\ (ires # NoCall /\ ires.kind = "return") => MetaphorGated(blueprint, ires.text)

\* the same of the compiler of api/index.py alone
IndexMetaphorGated ==
    (ValidateDone /\ IsAccepted(vres) /\ ires # NoCall /\ ires.kind = "return")
        => MetaphorGated(blueprint, ires.text)

\* the first half of C12 of the compiler of prompt_compiler.py alone
BackendMetaphorSuppressed ==
    (ValidateDone /\ IsAccepted(vres) /\ CompileDone /\ cres.kind = "return"
        /\ CreativityIsNone(blueprint))
        => MetaphorGated(blueprint, cres.text)

\* the position at which the phrase t first occurs in s, 0 if it does not
FirstPos(s, t) ==
    LET at == {i \in 1..(Len(s) - Len(t) + 1) : SubSeq(s, i, i + Len(t) - 1) = t}
    IN  IF at = {} THEN 0 ELSE CHOOSE i \in at : \A j \in at : i <= j

\* the atoms of text after the first atom from and before the first atom to
Between(text, from, to) ==
    LET a == IndexOf(text, from)
        b == IndexOf(text, to)
    IN  IF a = 0 \/ b = 0 \/ b < a THEN <<>> ELSE SubSeq(text, a + 1, b - 1)

\* the palette description line of an output
PaletteLine(text) == Between(text, "=== COLOR PALETTE ===\n- Palette: ", "\n- Primary Color: ")

\* palette is custom and custom_colors is a non-empty list of strings
HasCustomColors(bp) ==
    /\ "palette" \in DOMAIN bp /\ bp["palette"] = S("custom")
    /\ "custom_colors" \in DOMAIN bp /\ IsList(bp["custom_colors"])
    /\ bp["custom_colors"].l # <<>>
    /\ \A i \in 1..Len(bp["custom_colors"].l) : IsStr(bp["custom_colors"].l[i])

\* C13: when palette is custom and custom_colors is a non-empty sequence of
\* colour strings, the palette description line of compile_prompt's output
\* contains every element of custom_colors, in their order, and not the teal
\* description.
C13_CustomColorsInDescription ==
    (CompileDone /\ cres.kind = "return" /\ HasCustomColors(blueprint)) =>
        LET line == PaletteLine(cres.text)
            colors == blueprint["custom_colors"].l
        IN  /\ \A i \in 1..Len(colors) : Contains(line, colors[i].s)
            /\ \A i, j \in 1..Len(colors) :
                  i < j => FirstPos(line, colors[i].s) < FirstPos(line, colors[j].s)
            /\ ~Contains(line, <<PALETTE_DEFINITIONS.teal.description>>)

\* a blueprint with two custom colours is compiled and both are on the line
C13_Witness ==
    /\ CompileDone /\ cres.kind = "return" /\ HasCustomColors(blueprint)
    /\ Len(blueprint["custom_colors"].l) >= 2
    /\ Contains(PaletteLine(cres.text), blueprint["custom_colors"].l[2].s)

\* the palette block of an output: from the description to the typography block
PaletteBlock(text) ==
    Between(text, "=== COLOR PALETTE ===\n- Palette: ", "=== TYPOGRAPHY ===...\n\n")

\* the palette block that shows the description and the colours of an entry
EntryBlock(entry) ==
    <<entry.description,
      "\n- Primary Color: ", entry.primary,
      "\n- Secondary Color: ", entry.secondary,
      "\n- Accent Color: ", entry.accent,
      "\n- Background: ", entry.background,
      "\n- Dark/Text Color: ", entry.dark, "\n\n">>

\* palette is the name of a table entry
NamesPalette(bp) ==
    /\ "palette" \in DOMAIN bp /\ IsStr(bp["palette"]) /\ Len(bp["palette"].s) = 1
    /\ bp["palette"].s[1] \in {"teal", "warm", "mono"}

\* palette is absent, or a null, string or number that names no entry and is
\* not custom, or custom with custom_colors missing or empty
FallsBackToTeal(bp) ==
    \/ "palette" \notin DOMAIN bp
    \/ /\ ~NamesPalette(bp)
       /\ Hashable(bp["palette"])
       /\ bp["palette"] # S("custom")
    \/ /\ bp["palette"] = S("custom")
       /\ \/ "custom_colors" \notin DOMAIN bp
          \/ bp["custom_colors"] = Lst(<<>>)

\* the blueprint without its palette and custom_colors fields
WithoutPalette(bp) == [k \in DOMAIN bp \ {"palette", "custom_colors"} |-> bp[k]]

C14_FallbackReached ==
    /\ CompileDone /\ cres.kind = "return"
    /\ "palette" \in DOMAIN blueprint /\ blueprint["palette"] = S("custom")
    /\ "custom_colors" \in DOMAIN blueprint /\ blueprint["custom_colors"] = Lst(<<>>)
    /\ Contains(cres.text, <<PALETTE_DEFINITIONS.teal.description, "\n- Primary Color: ", "#0d9488">>)

\* the field is absent or is a string that is not a key of the table
OutsideTable(bp, key, table) ==
    \/ key \notin DOMAIN bp
    \/ /\ IsStr(bp[key])
       /\ ~(Len(bp[key].s) = 1 /\ bp[key].s[1] \in DOMAIN table)

\* the blueprint without one field
WithoutField(bp, key) == [k \in DOMAIN bp \ {key} |-> bp[k]]

\* the style, metaphor-rule and restriction texts of an output's style block
StyleTexts(text) == Between(text, " - ", "=== COLOR PALETTE ===\n- Palette: ")

\* the layout block of an output
LayoutBlock(text) ==
    Between(text, "=== LAYOUT ===\n", "=== VISUAL CONTENT APPROACH ===...\n\n")

\* C15: when layout or creativity is absent or is a string outside its table,
\* compile_prompt does not fail because of it and uses the layout block of
\* before_after_with_recommendations and the style, metaphor-rule and
\* restriction texts of subtle respectively.
C15_TotalOverEnumValues ==
    CompileDone =>
        /\ (cres.kind = "return" /\ OutsideTable(blueprint, "layout", LAYOUT_INSTRUCTIONS)) =>
              LayoutBlock(cres.text) =
                  <<"\n", LAYOUT_INSTRUCTIONS.before_after_with_recommendations, "\n", "\n\n">>
        /\ (cres.kind = "return" /\ OutsideTable(blueprint, "creativity", CREATIVITY_MODIFIERS)) =>
              StyleTexts(cres.text) =
                  <<CREATIVITY_MODIFIERS.subtle.style,
                    "\n- Metaphor Guidelines: ", CREATIVITY_MODIFIERS.subtle.metaphors,
                    "\n- Restrictions: ", CREATIVITY_MODIFIERS.subtle.restrictions, "\n\n">>
        /\ (cres.kind = "raise" /\ OutsideTable(blueprint, "layout", LAYOUT_INSTRUCTIONS)) =>
              compile_prompt(WithoutField(blueprint, "layout")) = cres
        /\ (cres.kind = "raise" /\ OutsideTable(blueprint, "creativity", CREATIVITY_MODIFIERS)) =>
              compile_prompt(WithoutField(blueprint, "creativity")) = cres

\* a blueprint whose layout and creativity are strings outside their tables is
\* compiled to a prompt with the default layout block and the subtle style
C15_Witness ==
    /\ CompileDone /\ cres.kind = "return"
    /\ "layout" \in DOMAIN blueprint /\ "creativity" \in DOMAIN blueprint
    /\ OutsideTable(blueprint, "layout", LAYOUT_INSTRUCTIONS)
    /\ OutsideTable(blueprint, "creativity", CREATIVITY_MODIFIERS)
    /\ Contains(cres.text, <<LAYOUT_INSTRUCTIONS.before_after_with_recommendations>>)
    /\ Contains(cres.text, <<CREATIVITY_MODIFIERS.subtle.style>>)

\* the outcome and metric sections that have no points field but have a
\* non-empty list of strings as findings or, failing that, as actions
IsItemList(v) == IsList(v) /\ v.l # <<>> /\ \A i \in 1..Len(v.l) : IsStr(v.l[i])

LegacySections(bp) ==
    {sec \in SectionObjects(bp) :
        /\ "type" \in DOMAIN sec.d /\ sec.d["type"] \in {S("outcome"), S("metric")}
        /\ "points" \notin DOMAIN sec.d
        /\ IF "findings" \in DOMAIN sec.d THEN IsItemList(sec.d["findings"])
           ELSE "actions" \in DOMAIN sec.d /\ IsItemList(sec.d["actions"])}

\* findings, else actions
LegacyPoints(sec) ==
    IF "findings" \in DOMAIN sec.d THEN sec.d["findings"] ELSE sec.d["actions"]

\* the text shows every item of the list as a point of a section
ShowsAsPoints(text, items) ==
    \A i \in 1..Len(items.l) : Contains(text, <<"    * ">> \o items.l[i].s)

\* C16: for an outcome or metric section with no points field but findings
\* (else actions), compile_prompt of backend/compiler/prompt_compiler.py
\* renders the items of findings (else actions) as the section's points
\* instead of the generic placeholder.
C16_LegacyPointsFallback ==
    (CompileDone /\ cres.kind = "return") =>
        \A sec \in LegacySections(blueprint) :
            /\ ShowsAsPoints(cres.text, LegacyPoints(sec))
            /\ ~Contains(cres.text, <<"    * Key outcomes">>)
            /\ ~Contains(cres.text, <<"    * Key metrics">>)

\* the backend compiler never shows an item of findings or actions of such a
\* section: it shows the placeholder
BackendIgnoresLegacy ==
    (CompileDone /\ cres.kind = "return") =>
        \A sec \in LegacySections(blueprint) :
            /\ \A i \in 1..Len(LegacyPoints(sec).l) :
                  ~Contains(cres.text, LegacyPoints(sec).l[i].s)
            /\ \/ Contains(cres.text, <<"    * Key outcomes">>)
               \/ Contains(cres.text, <<"    * Key metrics">>)

\* the renderer variant that line 305 and the if/elif chain select for a section
Variant(sec) ==
    LET section_type == Get(sec.d, "type", S("outcome"))
    IN  IF section_type \in FiveTypes THEN section_type.s[1] ELSE "other"

Variants == {"before_after", "findings_actions", "recommendations", "outcome", "metric", "other"}

\* the text that only the render of one variant contains
VariantMark ==
    [v \in Variants |-> IF v = "other" THEN "\nSection " ELSE SECTION_TEMPLATES[v]]

\* how often a text contains an atom
Count(text, atom) == Cardinality({i \in 1..Len(text) : text[i] = atom})

\* the generic block of the i-th section begins with its index, heading and type
GenericBlock(sec, i) ==
    <<"\nSection ", ToString(i), ": ">>
    \o FormatValue(Get(sec.d, "heading", Str(<<"Section ", ToString(i)>>)))
    \o <<"\n  Type: ">> \o FormatValue(sec.d["type"])

\* a section that is an object whose emphasis, if present, is a string
PlainEmphasis(sec) ==
    IsObj(sec) /\ ("emphasis" \in DOMAIN sec.d => IsStr(sec.d["emphasis"]))

\* C17: rendering dispatches on section.type so that exactly one renderer
\* variant produces the text of each section; a section whose type is none of
\* the five is rendered, without an error, as a generic block with the
\* section's 1-based index, its heading and its type.
C17_DispatchByType ==
    (CompileDone /\ HasSectionList(blueprint)) =>
        LET sections == blueprint["sections"].l
            creativity == Get(blueprint, "creativity", S("subtle"))
        IN  /\ cres.kind = "return" =>
                  \A v \in Variants :
                      Count(cres.text, VariantMark[v]) =
                          Cardinality({i \in 1..Len(sections) : Variant(sections[i]) = v})
            /\ \A i \in 1..Len(sections) :
                  (PlainEmphasis(sections[i]) /\ Variant(sections[i]) = "other") =>
                      /\ section_text(sections[i], i, creativity).kind = "return"
                      /\ cres.kind = "return" =>
                             Contains(cres.text, GenericBlock(sections[i], i))

\* a blueprint with a section of an unrecognized type is compiled and the
\* prompt has the generic block
C17_Witness ==
    /\ CompileDone /\ cres.kind = "return" /\ HasSectionList(blueprint)
    /\ \E i \in 1..Len(blueprint["sections"].l) :
          /\ IsObj(blueprint["sections"].l[i])
          /\ Variant(blueprint["sections"].l[i]) = "other"
          /\ Contains(cres.text, GenericBlock(blueprint["sections"].l[i], i))

\* the emphasis level of a section: medium when absent; "other" for a value
\* that is none of the three levels
EmphasisLevel(sec) ==
    LET emphasis == Get(sec.d, "emphasis", S("medium"))
    IN  IF IsStr(emphasis) /\ Len(emphasis.s) = 1 /\ emphasis.s[1] \in DOMAIN EMPHASIS_INSTRUCTIONS
        THEN emphasis.s[1] ELSE "other"

\* the sections (by index) with an emphasis level, among those of some variants
SectionsAt(bp, level, variants) ==
    {i \in 1..Len(bp["sections"].l) :
        /\ EmphasisLevel(bp["sections"].l[i]) = level
        /\ Variant(bp["sections"].l[i]) \in variants}

\* C18: every section render produced by compile_prompt, for every section
\* type including the unrecognized-type fallback, contains verbatim the
\* instruction string that the emphasis table assigns to the section's emphasis
\* level (medium when emphasis is absent).
C18_EmphasisInstructionInEveryRender ==
    (CompileDone /\ cres.kind = "return" /\ HasSectionList(blueprint)) =>
        \A level \in DOMAIN EMPHASIS_INSTRUCTIONS :
            Count(cres.text, EMPHASIS_INSTRUCTIONS[level]) >=
                Cardinality(SectionsAt(blueprint, level, Variants))

\* the renders of the five types contain the instruction string of their
\* level, that of medium for a value that is no level; the generic block of
\* another type never contains an instruction string
EmphasisInstructionInTypedRenders ==
    (CompileDone /\ cres.kind = "return" /\ HasSectionList(blueprint)) =>
        \A level \in DOMAIN EMPHASIS_INSTRUCTIONS :
            Count(cres.text, EMPHASIS_INSTRUCTIONS[level]) =
                Cardinality(SectionsAt(blueprint, level, Variants \ {"other"}))
                + (IF level = "medium"
                   THEN Cardinality(SectionsAt(blueprint, "other", Variants \ {"other"}))
                   ELSE 0)

\* the payload slots of the five renderers and their placeholder phrases
PayloadSlots ==
    {[variant |-> "before_after", field |-> "before", placeholder |-> "Problem indicators"],
     [variant |-> "before_after", field |-> "after", placeholder |-> "Solution indicators"],
     [variant |-> "findings_actions", field |-> "findings", placeholder |-> "Key findings"],
     [variant |-> "findings_actions", field |-> "actions", placeholder |-> "Actions taken"],
     [variant |-> "recommendations", field |-> "items", placeholder |-> "    * Key recommendations"],
     [variant |-> "outcome", field |-> "points", placeholder |-> "    * Key outcomes"],
     [variant |-> "metric", field |-> "points", placeholder |-> "    * Key metrics"]}

\* the sections (by index) of the slot's type whose payload list is missing or empty
BlankSlots(bp, slot) ==
    {i \in 1..Len(bp["sections"].l) :
        /\ Variant(bp["sections"].l[i]) = slot.variant
        /\ \/ slot.field \notin DOMAIN bp["sections"].l[i].d
           \/ ~Truthy(bp["sections"].l[i].d[slot.field])}

\* C19: for every section of one of the five types, each payload list of that
\* type that is missing or empty is replaced in the render by its fixed
\* placeholder phrase, so no payload slot of a rendered section is blank.
C19_PlaceholderForEmptyPayload ==
    (CompileDone /\ cres.kind = "return" /\ HasSectionList(blueprint)) =>
        \A slot \in PayloadSlots :
            Count(cres.text, slot.placeholder) = Cardinality(BlankSlots(blueprint, slot))

\* a before_after section without a before list is compiled and the prompt
\* shows Problem indicators
C19_Witness ==
    /\ CompileDone /\ cres.kind = "return" /\ HasSectionList(blueprint)
    /\ \E i \in 1..Len(blueprint["sections"].l) :
          /\ IsObj(blueprint["sections"].l[i])
          /\ Variant(blueprint["sections"].l[i]) = "before_after"
          /\ "before" \notin DOMAIN blueprint["sections"].l[i].d
    /\ Contains(cres.text, <<"Problem indicators">>)

\* the before_after sections (by index) with a non-empty string as visual_metaphor
SplitSections(bp) ==
    {i \in 1..Len(bp["sections"].l) :
        /\ IsObj(bp["sections"].l[i])
        /\ Variant(bp["sections"].l[i]) = "before_after"
        /\ bp["sections"].l[i] \in SectionsWithMetaphor(bp)}

\* the blueprint has exactly one before_after section, it has a metaphor, and
\* creativity is not none
OneSplitSection(bp) ==
    /\ HasSectionList(bp) /\ ~CreativityIsNone(bp)
    /\ Cardinality(SplitSections(bp)) = 1
    /\ Cardinality({i \in 1..Len(bp["sections"].l) :
                       IsObj(bp["sections"].l[i]) /\ Variant(bp["sections"].l[i]) = "before_after"}) = 1

TheMetaphor(bp) ==
    bp["sections"].l[CHOOSE i \in SplitSections(bp) : TRUE].d["visual_metaphor"].s

\* a line without its "- Visual Metaphor: " label; <<"?">> if it has none
Unlabelled(line) ==
    IF line # <<>> /\ Head(line) = "- Visual Metaphor: " THEN Tail(line) ELSE <<"?">>

\* the metaphor shown on the BEFORE side and on the AFTER side of an output
BeforeSide(text) ==
    Unlabelled(Between(text, "\n    - Visual mood: Chaotic, messy, problematic...\n    ",
                       "\n  \n  RIGHT (AFTER) - Create an ILLUSTRATION showing:\n    - Visual scene depicting: "))
AfterSide(text) ==
    Unlabelled(Between(text, "\n    - Visual mood: Organized, clean, resolved...\n    ",
                       "\n  \n  Emphasis: "))

\* the positions of the separator in a metaphor
Separators(m) == {i \in 1..Len(m) : m[i] = " vs "}

\* C20 as stated: the metaphor is split on " vs ": the text before the
\* separator is the BEFORE side and the text after it the AFTER side, so the
\* two sides and the separator make up the metaphor; without a separator the
\* BEFORE side is the whole metaphor and the AFTER side is the fixed phrase.
C20_SplitOnSeparator ==
    (CompileDone /\ cres.kind = "return" /\ OneSplitSection(blueprint)) =>
        LET m == TheMetaphor(blueprint)
        IN  IF Separators(m) = {}
            THEN /\ BeforeSide(cres.text) = m
                 /\ AfterSide(cres.text) = <<"organized, resolved state">>
            ELSE \E p \in Separators(m) :
                    /\ BeforeSide(cres.text) = SubSeq(m, 1, p - 1)
                    /\ AfterSide(cres.text) = SubSeq(m, p + 1, Len(m))

\* C20, amended: the BEFORE side is the text before the first separator and
\* the AFTER side is the text after it up to the next separator, if there is
\* one; without a separator the BEFORE side is the whole metaphor and the AFTER
\* side is the fixed phrase "organized, resolved state".
C20_SplitOnFirstSeparators ==
    (CompileDone /\ cres.kind = "return" /\ OneSplitSection(blueprint)) =>
        LET m == TheMetaphor(blueprint)
            first == CHOOSE p \in Separators(m) : \A q \in Separators(m) : p <= q
            later == {q \in Separators(m) : q > first}
            next == IF later = {} THEN Len(m) + 1
                    ELSE CHOOSE p \in later : \A q \in later : p <= q
        IN  IF Separators(m) = {}
            THEN /\ BeforeSide(cres.text) = m
                 /\ AfterSide(cres.text) = <<"organized, resolved state">>
            ELSE /\ BeforeSide(cres.text) = SubSeq(m, 1, first - 1)
                 /\ AfterSide(cres.text) = SubSeq(m, first + 1, next - 1)

\* a before_after section with a metaphor of three parts is compiled under a
\* creativity other than none and the prompt shows the second part on the
\* AFTER side
C20_Witness ==
    /\ CompileDone /\ cres.kind = "return" /\ OneSplitSection(blueprint)
    /\ Cardinality(Separators(TheMetaphor(blueprint))) = 2
    /\ AfterSide(cres.text) = <<"order">>

\* a metaphor without a separator is compiled and the AFTER side is the fixed phrase
C20_DefaultReached ==
    /\ CompileDone /\ cres.kind = "return" /\ OneSplitSection(blueprint)
    /\ Separators(TheMetaphor(blueprint)) = {}
    /\ AfterSide(cres.text) = <<"organized, resolved state">>

\* the texts that open the fixed blocks of a prompt, in the order of the claim
BlockHeads ==
    <<"=== CRITICAL TEXT RENDERING RULES ===...\n\n",
      "=== HEADER ===\nTitle: \"",
      "=== STYLE & TONE ===\n- Tone: ",
      "=== COLOR PALETTE ===\n- Palette: ",
      "=== TYPOGRAPHY ===...\n\n",
      "=== LAYOUT ===\n",
      "=== VISUAL CONTENT APPROACH ===...\n\n",
      "=== TECHNICAL REQUIREMENTS ===...\n\n",
      "=== DO's ===...\n\n",
      "=== DON'Ts - CRITICAL ===... DO NOT include any watermarks or signatures">>

\* the blocks between which the section renders stand
PreambleHead == "=== VISUAL CONTENT APPROACH ===...\n\n"
FooterHead == "=== TECHNICAL REQUIREMENTS ===...\n\n"

\* the marker of the k-th section
SectionMarker(k) == <<"--- SECTION ", ToString(k), " ---\n">>

\* the position of the marker of section k; that of the technical-requirements
\* footer for the section after the last
MarkerPos(text, k, n) ==
    IF k > n THEN IndexOf(text, FooterHead)
    ELSE FirstPos(text, SectionMarker(k))

\* the positions between marker k and the next marker that hold the text
\* marking a renderer variant
MarksOf(text, k, n) ==
    {p \in (MarkerPos(text, k, n) + 1)..(MarkerPos(text, k + 1, n) - 1) :
        \E v \in Variants : text[p] = VariantMark[v]}

\* C21: the output of compile_prompt has its blocks in a fixed order: header
\* rules, title/subtitle, style/tone, palette, typography, layout,
\* visual-approach preamble, the section renders, technical requirements,
\* do/don't; the section renders stand in the order of the sections list, one
\* per section, the k-th prefixed with the marker for index k (1-based).
C21_BlocksInOrder ==
    (CompileDone /\ cres.kind = "return" /\ HasSectionList(blueprint)) =>
        LET text == cres.text
            sections == blueprint["sections"].l
            n == Len(sections)
        IN  /\ \A b \in 1..Len(BlockHeads) : Count(text, BlockHeads[b]) = 1
            /\ \A b \in 1..(Len(BlockHeads) - 1) :
                  IndexOf(text, BlockHeads[b]) < IndexOf(text, BlockHeads[b + 1])
            /\ Count(text, "--- SECTION ") = n
            /\ \A k \in 1..n :
                  /\ MarkerPos(text, k, n) > IndexOf(text, PreambleHead)
                  /\ MarkerPos(text, k, n) < MarkerPos(text, k + 1, n)
                  /\ Cardinality(MarksOf(text, k, n)) = 1
                  /\ \A p \in MarksOf(text, k, n) : text[p] = VariantMark[Variant(sections[k])]

\* a blueprint with two sections of different types is compiled and the prompt
\* has the markers of sections 1 and 2
C21_Witness ==
    /\ CompileDone /\ cres.kind = "return" /\ HasSectionList(blueprint)
    /\ Len(blueprint["sections"].l) = 2
    /\ Variant(blueprint["sections"].l[1]) # Variant(blueprint["sections"].l[2])
    /\ Contains(cres.text, SectionMarker(1)) /\ Contains(cres.text, SectionMarker(2))

\* C22: validate_blueprint and compile_prompt leave everything but their
\* return value unchanged: in every step of every call the module-level lookup
\* tables stay what they were at import, and the blueprint a call was given
\* (with its sections and their lists) stays what it was when the call began.
C22_CallsLeaveInputsAndTables ==
    /\ [](tables = ModuleTables)
    /\ [][\A c \in Callers :
             caller[c].pc # "idle" => caller'[c].blueprint = caller[c].blueprint]_vars

\* a compile_prompt call on the blueprint with payload lists has returned and a
\* validate_blueprint call has returned, the tables being as at import
C22_Witness ==
    \E c, d \in Callers :
        /\ caller[c].pc = "done" /\ caller[c].result.kind = "return"
        /\ caller[c].blueprint = StyledDoc
        /\ caller[d].pc = "validated" /\ IsAccepted(caller[d].result)
        /\ tables = ModuleTables

\* a request with an empty prompt, no file and no username
EmptyRequest(r) == form[r] = Form("", FALSE, "none")

\* C23: a request with an empty (or whitespace-only) prompt, no file and no
\* username is answered with HTTP status 400, and no generative-model call is
\* made for it, by either handler.
C23_EmptyInputIs400 ==
    \A r \in Requests :
        (req[r].pc = "done" /\ EmptyRequest(r)) =>
            /\ req[r].out.status = 400
            /\ req[r].out.events = <<>>

\* no model call is made for such a request, whatever the status
EmptyInputMakesNoCall ==
    \A r \in Requests :
        (req[r].pc = "done" /\ EmptyRequest(r)) =>
            /\ req[r].out.events = <<>>
            /\ req[r].out.ok # "true"

\* server.py answers such a request with 400, with or without an API key
ServerEmptyInputIs400 ==
    \A r \in Requests :
        (app = "server" /\ req[r].pc = "done" /\ EmptyRequest(r)) => req[r].out.status = 400

\* the response carries what a compiled prompt (the preview) and a generated
\* image come from: the compile_prompt call and the image call were made
HasPreviewAndImage(out) ==
    /\ \E i \in 1..Len(out.events) : out.events[i] = "compile_prompt"
    /\ \E i \in 1..Len(out.events) : out.events[i] = "image_call"

\* the blueprint field of the body is a document with the keys title and sections
HasTitleAndSections(out) ==
    /\ out.blueprint # NoBlueprint
    /\ "title" \in DOMAIN out.blueprint
    /\ "sections" \in DOMAIN out.blueprint

\* C24: every response with ok = true carries an image, a
\* compiled_prompt_preview and a blueprint that contains both the title key
\* and the sections key, for either handler.
C24_OkCarriesBlueprint ==
    \A r \in Requests :
        (req[r].pc = "done" /\ req[r].out.ok = "true") =>
            /\ HasPreviewAndImage(req[r].out)
            /\ HasTitleAndSections(req[r].out)

\* server.py satisfies it; every ok response of either handler has the image
\* and the preview
ServerOkCarriesBlueprint ==
    \A r \in Requests :
        (req[r].pc = "done" /\ req[r].out.ok = "true") =>
            /\ HasPreviewAndImage(req[r].out)
            /\ app = "server" => HasTitleAndSections(req[r].out)

\* C25: validate_blueprint never raises: for every JSON-compatible document
\* (field values and section elements of any JSON type) it returns acceptance
\* or a rejection with a reason.
C25_ValidateNeverRaises ==
    ValidateDone =>
        /\ vres.kind = "return"
        /\ ~vres.valid => vres.msg # <<>>

\* validate_blueprint raises only on a sections list with an element that is no
\* object, and then all elements before it pass the section checks
ValidateRaisesOnlyOnNonObject ==
    (ValidateDone /\ vres.kind = "raise") =>
        /\ HasSectionList(blueprint)
        /\ \E i \in 1..Len(blueprint["sections"].l) : ~IsObj(blueprint["sections"].l[i])

\* C26: the contributor usage limit holds under any interleaving of requests:
\* the recorded usage count of a user with role contributor never exceeds 2.
C26_UsageLimitHolds ==
    \A u \in DOMAIN usage_cache :
        (u \in DOMAIN USERS /\ USERS[u] = "contributor") => usage_cache[u] <= 2

\* with requests that arrive one after the other has been answered, the limit holds:
\* a count above 2 needs a request that passed the check while another of the
\* same user was suspended in await file.read()
LimitExceededOnlyByOverlap ==
    [][\A r \in Requests :
          (/\ req[r].pc # "done" /\ req'[r].pc = "done" /\ req'[r].out.ok = "true"
           /\ req[r].username = "contributor" /\ UsageOf(usage_cache, "contributor") >= 2)
          => req[r].pc = "reading"]_vars

\* request r ends in this step
Ends(r) == req[r].pc # "done" /\ req'[r].pc = "done"

\* C27: a user's usage count changes only by +1 and only in a request that
\* carries that username and ends with an ok = true response; every request
\* that ends in an error leaves all usage counts unchanged.
C27_UsageChangesOnlyOnOk ==
    [][/\ \A u \in Usernames :
             UsageOf(usage_cache', u) # UsageOf(usage_cache, u) =>
                 /\ UsageOf(usage_cache', u) = UsageOf(usage_cache, u) + 1
                 /\ \E r \in Requests :
                       Ends(r) /\ req'[r].out.ok = "true" /\ form'[r].username = u
       /\ DOMAIN usage_cache' \subseteq Usernames \ {""}
       /\ \A r \in Requests :
             (Ends(r) /\ req'[r].out.ok # "true") => usage_cache' = usage_cache]_vars

\* a request of the contributor has ended with ok = true and the count is 1,
\* after a request that ended in an error
C27_Witness ==
    \E r, q \in Requests :
        /\ q < r /\ req[q].pc = "closed"
        /\ req[r].pc = "done" /\ req[r].out.ok = "true" /\ form[r].username = "contributor"
        /\ usage_cache = [contributor |-> 1]

\* a section without its id and metaphor_direction fields
WithoutUnusedOfSection(sec) ==
    IF IsObj(sec) THEN Obj([k \in DOMAIN sec.d \ {"id", "metaphor_direction"} |-> sec.d[k]])
    ELSE sec

\* the blueprint without its summary field and without the id and
\* metaphor_direction fields of its sections
WithoutUnused(bp) ==
    [k \in DOMAIN bp \ {"summary"} |->
        IF k = "sections" /\ IsList(bp[k])
        THEN Lst([i \in 1..Len(bp[k].l) |-> WithoutUnusedOfSection(bp[k].l[i])])
        ELSE bp[k]]

\* the blueprint has one of the three fields
HasUnused(bp) ==
    \/ "summary" \in DOMAIN bp
    \/ \E sec \in SectionObjects(bp) : "id" \in DOMAIN sec.d \/ "metaphor_direction" \in DOMAIN sec.d

\* C28: the output of compile_prompt is independent of the blueprint's summary
\* field and of each section's id and metaphor_direction fields: a blueprint
\* compiles to the string its copy without those fields compiles to.
C28_IndependentOfUnusedFields ==
    CompileDone => cres = compile_prompt(WithoutUnused(blueprint))

\* a before_after section with metaphor_direction overlay and a two-part
\* metaphor is compiled, and the metaphor is split all the same
C28_Witness ==
    /\ CompileDone /\ cres.kind = "return" /\ HasUnused(blueprint)
    /\ "summary" \in DOMAIN blueprint
    /\ \E sec \in SectionObjects(blueprint) :
          /\ "id" \in DOMAIN sec.d
          /\ "metaphor_direction" \in DOMAIN sec.d /\ sec.d["metaphor_direction"] = S("overlay")
          /\ Variant(sec) = "before_after"
    /\ AfterSide(cres.text) = <<"neat shelf">>

\* the five colour lines of an output, from the value of Primary Color on
ColourLines(text) == Between(text, "\n- Primary Color: ", "=== TYPOGRAPHY ===...\n\n")

\* an output without the contents of its palette description line
WithoutPaletteLine(text) ==
    LET from == IndexOf(text, "=== COLOR PALETTE ===\n- Palette: ")
        to == IndexOf(text, "\n- Primary Color: ")
    IN  IF from = 0 \/ to = 0 THEN text
        ELSE SubSeq(text, 1, from) \o SubSeq(text, to, Len(text))

PaletteIsCustom(bp) == "palette" \in DOMAIN bp /\ bp["palette"] = S("custom")

\* C29: when palette is custom, whatever custom_colors holds, the five colour
\* lines of the output are the teal entry's hex values, and custom_colors
\* influences only the palette description line.
C29_CustomKeepsTealColours ==
    (CompileDone /\ cres.kind = "return" /\ PaletteIsCustom(blueprint)) =>
        LET teal == PALETTE_DEFINITIONS.teal
            bare == compile_prompt(WithoutField(blueprint, "custom_colors"))
        IN  /\ ColourLines(cres.text) =
                   <<teal.primary, "\n- Secondary Color: ", teal.secondary,
                     "\n- Accent Color: ", teal.accent,
                     "\n- Background: ", teal.background,
                     "\n- Dark/Text Color: ", teal.dark, "\n\n">>
            /\ bare.kind = "return"
            /\ WithoutPaletteLine(cres.text) = WithoutPaletteLine(bare.text)

\* a custom palette with two colours is compiled: the description names them
\* and the primary colour is teal's
C29_Witness ==
    /\ CompileDone /\ cres.kind = "return" /\ HasCustomColors(blueprint)
    /\ Len(blueprint["custom_colors"].l) = 2
    /\ Contains(cres.text, <<"Custom palette: ">>)
    /\ Contains(cres.text, <<"\n- Primary Color: ", "#0d9488">>)

\* C30: whenever a request with a PDF upload writes the upload to a temporary
\* file, that file has been deleted by the time the handler finishes, on every
\* exit path and in both handlers.
C30_TempFileDeleted ==
    \A r \in Requests : req[r].pc = "done" => req[r].temp # "exists"

\* server.py deletes every temporary file it wrote; api/index.py leaves the
\* file only when the upload was a PDF
ServerDeletesTempFile ==
    \A r \in Requests :
        req[r].pc = "done" =>
            /\ app = "server" => req[r].temp # "exists"
            /\ req[r].temp = "exists" => form[r].file = "pdf"

====
